---- MODULE Spec2Model ----
(***************************************************************************)
(* Model of the scatter-gather engine of aws-ipv4-cost-viewer: the four    *)
(* regional collectors (fetchAllENIs, fetchAllInstances,                   *)
(* fetchAllLoadBalancers, fetchAllEIPs) with their goroutines, channels    *)
(* and WaitGroup, and the coordinator (ipCostsView, fetchTableData,        *)
(* unpackChannelData) that joins the four category channels.               *)
(* Money is kept in hundredths of a dollar (3.65 is 365).                  *)
(***************************************************************************)
EXTENDS Integers, Sequences, FiniteSets, TLC

\* ------------------------------------------------------------------ bounds
MaxRegions == 2
MaxRecs == 2
MaxLBs == 2

\* ------------------------------------------------------- program constants
FlatFeePerPublicIP == 365
ChanSlotsPerRegion == 10

NoIP == 0
RegionIds == 1..MaxRegions
Categories == {"ENI", "EC2", "LB", "EIP"}
ChannelCategories == {"ENI", "LB", "EIP"}

SeqsUpTo(S, n) == UNION {[1..k -> S] : k \in 0..n}

RECURSIVE SeqSum(_)
SeqSum(s) == IF s = <<>> THEN 0 ELSE Head(s) + SeqSum(Tail(s))

Range(s) == {s[i] : i \in 1..Len(s)}

CountIn(s, x) == Cardinality({i \in 1..Len(s) : s[i] = x})

\* ------------------------------------------- what the inventory provider holds
\* An interface or instance is its public IP (NoIP when it has none); an
\* address is its IP and what it is attached to; a load balancer is its type,
\* the answer of the DNS lookup of its name (no address and dnsErr when the
\* lookup fails) and the answer of the metrics query about it.
ListingFailed == [ok |-> FALSE, items |-> <<>>]

Listing(items) == [ok |-> TRUE, items |-> items]

AddressItems(ips, kinds) == [ip : ips, kind : kinds]

MetricData(bytes) == [ok |-> TRUE, bytes |-> bytes]

MetricError == [ok |-> FALSE, bytes |-> 0]

LBItems(types, answers) ==
    [type : types, dns : answers, dnsErr : {FALSE}, metric : {MetricData(5)}]

ListingsOf(items, n) == {ListingFailed} \cup {Listing(s) : s \in SeqsUpTo(items, n)}

LBWorlds(v2items, classicitems, m) ==
    {w \in [v2 : ListingsOf(v2items, m), classic : ListingsOf(classicitems, m)] :
        Len(w.v2.items) + Len(w.classic.items) <= m}

\* the answers a region can give in the runs of one collector
DetailWorlds(c) ==
    CASE c \in {"ENI", "EC2"} -> ListingsOf({NoIP, 1}, MaxRecs)
      [] c = "EIP" -> ListingsOf(AddressItems({1}, {"instance", "idle", "lookupError"}), MaxRecs)
      [] c = "LB" -> LBWorlds(LBItems({"application"}, {<<1>>}),
                              LBItems({"classic"}, {<<1>>}), MaxLBs)

NoWorld(c) == IF c = "LB" THEN [v2 |-> ListingFailed, classic |-> ListingFailed]
              ELSE ListingFailed

\* ------------------------------------------------------------- the records
\* (variant: every interface listed is kept)
fetchENIsInRegionUnfiltered(w) == w.items

\* fetchENIsInRegion / fetchInstancesInRegion keep the items with a public IP
fetchENIsInRegion(w) == SelectSeq(w.items, LAMBDA ip : ip # NoIP)

\* (variant: every instance listed is kept)
fetchInstancesInRegionUnfiltered(w) == w.items

fetchInstancesInRegion(w) == SelectSeq(w.items, LAMBDA ip : ip # NoIP)

ENIInfo(r, i, ip) == [region |-> r, id |-> i, ip |-> ip, cost |-> FlatFeePerPublicIP]

EC2InstanceInfo(r, i, ip) == [region |-> r, id |-> i, ip |-> ip, cost |-> FlatFeePerPublicIP]

\* (variant: the NAT gateways are not searched)
describeEIPByAssociationIDNoNAT(a) ==
    CASE a.kind = "instance" -> "Instance"
      [] OTHER -> ""

\* describeEIPByAssociationID: the resolved target, "" when there is none
describeEIPByAssociationID(a) ==
    CASE a.kind = "instance" -> "Instance"
      [] a.kind = "nat" -> "NAT Gateway"
      [] OTHER -> ""

\* (variant: no second fee for an empty association target)
EIPInfoFlat(r, i, a) ==
    LET target == describeEIPByAssociationID(a)
    IN [region |-> r, id |-> i, ip |-> a.ip, target |-> target,
        cost |-> FlatFeePerPublicIP]

EIPInfo(r, i, a) ==
    LET target == describeEIPByAssociationID(a)
    IN [region |-> r, id |-> i, ip |-> a.ip, target |-> target,
        cost |-> IF target = "" THEN FlatFeePerPublicIP + FlatFeePerPublicIP
                 ELSE FlatFeePerPublicIP]

\* ips, _ := net.LookupIP(dnsName): the error is dropped
countIPsFromDNS(lb) == lb.dns

\* the sum of the values returned, 0 when the query fails, -1 for a type
\* that is none of application, network, classic
fetchProcessedBytes(lbType, m) ==
    IF lbType \notin {"application", "network", "classic"} THEN -1
    ELSE IF ~m.ok THEN 0
    ELSE m.bytes

\* (variant: the record is stamped with region 1 whatever the goroutine's region)
LoadBalancerInfoOneRegion(r, k, i, lb) ==
    LET ips == countIPsFromDNS(lb)
        lbType == IF k = "classic" THEN "classic" ELSE lb.type
    IN [region |-> 1, id |-> <<k, i>>, type |-> lbType, ips |-> ips,
        ipCount |-> Len(ips),
        trafficLastWeek |-> fetchProcessedBytes(lbType, lb.metric),
        cost |-> FlatFeePerPublicIP * Len(ips)]

LoadBalancerInfo(r, k, i, lb) ==
    LET ips == countIPsFromDNS(lb)
        lbType == IF k = "classic" THEN "classic" ELSE lb.type
    IN [region |-> r, id |-> <<k, i>>, type |-> lbType, ips |-> ips,
        ipCount |-> Len(ips),
        trafficLastWeek |-> fetchProcessedBytes(lbType, lb.metric),
        cost |-> FlatFeePerPublicIP * Len(ips)]

\* ---------------------------------------------------------------- the state
VARIABLES
    cat,        \* the collector this invocation runs
    regions,    \* the region set handed to the collector
    world,      \* per region, what the provider answered (set when queried)
    rpc,        \* per region, where its goroutine stands
    ridx,       \* per region, the loop index of its emission loop
    tpc,        \* per load balancer, where its second-level goroutine stands
    wg,         \* the WaitGroup counter
    mu,         \* the mutex: 0 when free, else the region holding it
    resCh,      \* buffer of the results channel
    errCh,      \* buffer of the errors channel
    resClosed,  \* results channel closed
    errClosed,  \* errors channel closed
    fpc,        \* the finalizer goroutine
    cpc,        \* the collector's own goroutine (the consumer)
    all,        \* allENIs / allInstances / allLBs / allEIPs
    errors,     \* the collected error strings
    ret         \* what the collector returned

cvars == <<cat, regions, world, rpc, ridx, tpc, wg, mu, resCh, errCh,
           resClosed, errClosed, fpc, cpc, all, errors, ret>>

VARIABLES
    ppc,        \* per category, where its producer goroutine stands
    pin,        \* per category, what the provider answered to its collector
    pmsg,       \* per category, the ChannelData its producer sends
    chClosed,   \* per category channel, closed
    chanLog,    \* per category channel, the messages it carried and their senders
    widx,       \* the entry of "channels" the coordinator waits on
    data,       \* eniData, ec2Data, lbData, eipData
    out,        \* what unpackChannelData returned
    now,        \* the clock
    waitStart,  \* when the current select began
    maxReady,   \* the latest time at which a producer finished its fetch
    doneAt      \* when unpackChannelData returned

svars == <<ppc, pin, pmsg, chClosed, chanLog, widx, data, out, now, waitStart,
           maxReady, doneAt>>

VARIABLES
    mpc,        \* where ipCostsView stands
    chans,      \* the category channels made so far
    tags,       \* the tag list handed to getNameTagValue
    nameTag,    \* what getNameTagValue returned
    sn,         \* the --subnets mode: the subnets of the provider and its run
    calls       \* per outward call and per channel close, how often it was issued

ovars == <<mpc, chans, tags, nameTag, sn>>

mvars == <<ovars, calls>>

vars == <<cvars, svars, mvars>>

\* one more call of unit u
Bump(f, u) == IF u \in DOMAIN f THEN [f EXCEPT ![u] = @ + 1] ELSE f @@ (u :> 1)

Issued(u) == IF u \in DOMAIN calls THEN calls[u] ELSE 0

\* the units: a regional listing, the association lookup of an address, the
\* DNS lookup and the metrics query of a load balancer, the close of a channel
ListingCall(r, k) == <<"list", r, k, 0>>

LookupCall(r, i) == <<"lookup", r, "", i>>

DNSCall(t) == <<"dns", t[1], t[2], t[3]>>

MetricCall(t) == <<"metric", t[1], t[2], t[3]>>

CloseCall(ch) == <<"close", 0, ch, 0>>

LBKinds == {"v2", "classic"}
LBTasks == RegionIds \X LBKinds \X (1..MaxLBs)

NoRet == [records |-> <<>>, err |-> <<>>]

\* make(chan ..., len(regions)*10) and make(chan string, len(regions));
\* the load-balancer channels are unbuffered
ResCap == IF cat = "LB" THEN 0 ELSE Cardinality(regions) * ChanSlotsPerRegion

\* (variant: the errors channel has one slot fewer than there are regions)
ErrCapOneShort == IF cat = "LB" THEN 0 ELSE Cardinality(regions) - 1

ErrCap == IF cat = "LB" THEN 0 ELSE Cardinality(regions)

\* A send completes when the buffer has room or, on an unbuffered channel,
\* when the consumer is blocked in the receive on that channel.
CanSend(buf, cap, receiving) ==
    \/ Len(buf) < cap
    \/ cap = 0 /\ receiving /\ buf = <<>>

CanSendRes == CanSend(resCh, ResCap, cpc = "results")

CanSendErr == CanSend(errCh, ErrCap, cpc = "errors")

ErrorString(r, what) == [region |-> r, what |-> what]

\* (variant: the error is built whether or not errors were collected)
CombinedErrorUnconditional(errs) == <<ErrorString(0, "")>> \o errs

\* strings.Join(errors, "; ") wrapped by fmt.Errorf when len(errors) > 0
CombinedError(errs) == IF Len(errs) > 0 THEN errs ELSE <<>>

HasError(e) == e # <<>>

CollectorInit(cs, maxRegions) ==
    /\ cat \in cs
    /\ \E n \in 0..maxRegions : regions = 1..n
    /\ world = [r \in RegionIds |-> NoWorld(cat)]
    /\ rpc = [r \in RegionIds |-> IF r \in regions THEN "list" ELSE "absent"]
    /\ ridx = [r \in RegionIds |-> 1]
    /\ tpc = [t \in LBTasks |-> "none"]
    /\ wg = Cardinality(regions)
    /\ mu = 0
    /\ resCh = <<>>
    /\ errCh = <<>>
    /\ resClosed = FALSE
    /\ errClosed = FALSE
    /\ fpc = IF cat = "EC2" THEN "none" ELSE "wait"
    /\ cpc = IF cat = "EC2" THEN "wait" ELSE "results"
    /\ all = <<>>
    /\ errors = <<>>
    /\ ret = NoRet

\* ------------------------------------------------ region goroutines, ENI
\* the deferred wg.Done() runs with the step that leaves the goroutine
Leave(r) ==
    /\ rpc' = [rpc EXCEPT ![r] = "done"]
    /\ wg' = wg - 1

ENIListFrom(r, worlds) ==
    /\ cat = "ENI" /\ rpc[r] = "list"
    /\ calls' = Bump(calls, ListingCall(r, ""))
    /\ \E w \in worlds :
          /\ world' = [world EXCEPT ![r] = w]
          /\ IF ~w.ok THEN rpc' = [rpc EXCEPT ![r] = "senderr"] /\ wg' = wg
             ELSE IF fetchENIsInRegion(w) = <<>> THEN Leave(r)
             ELSE rpc' = [rpc EXCEPT ![r] = "emit"] /\ wg' = wg
    /\ UNCHANGED <<ovars, svars, cat, regions, ridx, tpc, mu, resCh, errCh, resClosed,
                   errClosed, fpc, cpc, all, errors, ret>>

ENIEmit(r) ==
    /\ cat = "ENI" /\ rpc[r] = "emit"
    /\ CanSendRes
    /\ LET enis == fetchENIsInRegion(world[r])
           i == ridx[r]
       IN /\ resCh' = Append(resCh, ENIInfo(r, i, enis[i]))
          /\ IF i = Len(enis) THEN Leave(r) /\ ridx' = ridx
             ELSE ridx' = [ridx EXCEPT ![r] = i + 1] /\ UNCHANGED <<rpc, wg>>
    /\ UNCHANGED <<mvars, svars, cat, regions, world, tpc, mu, errCh, resClosed,
                   errClosed, fpc, cpc, all, errors, ret>>

\* ------------------------------------------------ region goroutines, EIP
EIPListFrom(r, worlds) ==
    /\ cat = "EIP" /\ rpc[r] = "list"
    /\ calls' = Bump(calls, ListingCall(r, ""))
    /\ \E w \in worlds :
          /\ world' = [world EXCEPT ![r] = w]
          /\ IF ~w.ok THEN rpc' = [rpc EXCEPT ![r] = "senderr"] /\ wg' = wg
             ELSE IF w.items = <<>> THEN Leave(r)
             ELSE rpc' = [rpc EXCEPT ![r] = "emit"] /\ wg' = wg
    /\ UNCHANGED <<ovars, svars, cat, regions, ridx, tpc, mu, resCh, errCh, resClosed,
                   errClosed, fpc, cpc, all, errors, ret>>

\* one iteration of "for _, eip := range eips"
EIPStep(r) ==
    /\ cat = "EIP" /\ rpc[r] = "emit"
    /\ LET eips == world[r].items
           i == ridx[r]
           eip == eips[i]
           next == IF i = Len(eips) THEN Leave(r) /\ ridx' = ridx
                   ELSE ridx' = [ridx EXCEPT ![r] = i + 1] /\ UNCHANGED <<rpc, wg>>
       IN CASE eip.kind = "instance" -> next /\ resCh' = resCh /\ calls' = calls
            [] eip.kind = "lookupError" ->
                   /\ calls' = Bump(calls, LookupCall(r, i))
                   /\ rpc' = [rpc EXCEPT ![r] = "senderr"]
                   /\ UNCHANGED <<ridx, wg, resCh>>
            [] OTHER ->
                   /\ CanSendRes
                   /\ calls' = Bump(calls, LookupCall(r, i))
                   /\ resCh' = Append(resCh, EIPInfo(r, i, eip))
                   /\ next
    /\ UNCHANGED <<ovars, svars, cat, regions, world, tpc, mu, errCh, resClosed,
                   errClosed, fpc, cpc, all, errors, ret>>

\* ------------------------------------------------- region goroutines, LB
\* (variant: only the v2 load balancers get a goroutine)
LBSpawnedV2Only(r, w) ==
    [t \in LBTasks |->
        IF t[1] = r /\ t[2] = "v2" /\ t[3] <= Len(w[t[2]].items) THEN "run" ELSE tpc[t]]

\* the go statements of the two loops over lbs and classicLbs
LBSpawned(r, w) ==
    [t \in LBTasks |->
        IF t[1] = r /\ t[3] <= Len(w[t[2]].items) THEN "run" ELSE tpc[t]]

\* (variant: the v2 load balancers get their goroutines before the classic
\* listing is made)
LBListFromV2First(r, worlds) ==
    /\ cat = "LB" /\ rpc[r] = "list"
    /\ \E w \in worlds :
          /\ world' = [world EXCEPT ![r] = w]
          /\ calls' = IF w.v2.ok
                      THEN Bump(Bump(calls, ListingCall(r, "v2")), ListingCall(r, "classic"))
                      ELSE Bump(calls, ListingCall(r, "v2"))
          /\ IF ~w.v2.ok
             THEN rpc' = [rpc EXCEPT ![r] = "senderr"] /\ UNCHANGED <<wg, tpc>>
             ELSE IF ~w.classic.ok
             THEN /\ rpc' = [rpc EXCEPT ![r] = "senderr"]
                  /\ tpc' = [t \in LBTasks |->
                               IF t[1] = r /\ t[2] = "v2" /\ t[3] <= Len(w.v2.items)
                               THEN "run" ELSE tpc[t]]
                  /\ wg' = wg + Len(w.v2.items)
             ELSE /\ rpc' = [rpc EXCEPT ![r] = "spawned"]
                  /\ tpc' = LBSpawned(r, w)
                  /\ wg' = wg + Len(w.v2.items) + Len(w.classic.items)
    /\ UNCHANGED <<ovars, svars, cat, regions, ridx, mu, resCh, errCh, resClosed,
                   errClosed, fpc, cpc, all, errors, ret>>

\* the two listings of a region goroutine, then its go statements
LBListFrom(r, worlds) ==
    /\ cat = "LB" /\ rpc[r] = "list"
    /\ \E w \in worlds :
          /\ world' = [world EXCEPT ![r] = w]
          /\ calls' = IF w.v2.ok
                      THEN Bump(Bump(calls, ListingCall(r, "v2")), ListingCall(r, "classic"))
                      ELSE Bump(calls, ListingCall(r, "v2"))
          /\ IF ~w.v2.ok \/ ~w.classic.ok
             THEN rpc' = [rpc EXCEPT ![r] = "senderr"] /\ UNCHANGED <<wg, tpc>>
             ELSE /\ rpc' = [rpc EXCEPT ![r] = "spawned"]
                  /\ tpc' = LBSpawned(r, w)
                  /\ wg' = wg + Len(w.v2.items) + Len(w.classic.items)
    /\ UNCHANGED <<ovars, svars, cat, regions, ridx, mu, resCh, errCh, resClosed,
                   errClosed, fpc, cpc, all, errors, ret>>

LBRegionDone(r) ==
    /\ cat = "LB" /\ rpc[r] = "spawned"
    /\ Leave(r)
    /\ UNCHANGED <<mvars, svars, cat, regions, world, ridx, tpc, mu, resCh, errCh, resClosed,
                   errClosed, fpc, cpc, all, errors, ret>>

\* countIPsFromDNS is called once, and fetchProcessedBytes queries the metrics
\* once for a type it supports
LBTaskCalls(t) ==
    LET lb == world[t[1]][t[2]].items[t[3]]
        lbType == IF t[2] = "classic" THEN "classic" ELSE lb.type
    IN IF lbType \in {"application", "network", "classic"}
       THEN Bump(Bump(calls, DNSCall(t)), MetricCall(t))
       ELSE Bump(calls, DNSCall(t))

\* (variant: a load balancer whose metrics query yields -1 sends no record)
LBTaskSendSupported(t) ==
    /\ cat = "LB" /\ tpc[t] = "run"
    /\ LET rec == LoadBalancerInfo(t[1], t[2], t[3], world[t[1]][t[2]].items[t[3]])
       IN IF rec.trafficLastWeek = -1 THEN resCh' = resCh
          ELSE CanSendRes /\ resCh' = Append(resCh, rec)
    /\ calls' = LBTaskCalls(t)
    /\ tpc' = [tpc EXCEPT ![t] = "done"]
    /\ wg' = wg - 1
    /\ UNCHANGED <<ovars, svars, cat, regions, world, rpc, ridx, mu, errCh, resClosed,
                   errClosed, fpc, cpc, all, errors, ret>>

\* the second-level goroutine of one load balancer
LBTaskSend(t) ==
    /\ cat = "LB" /\ tpc[t] = "run"
    /\ CanSendRes
    /\ resCh' = Append(resCh, LoadBalancerInfo(t[1], t[2], t[3], world[t[1]][t[2]].items[t[3]]))
    /\ calls' = LBTaskCalls(t)
    /\ tpc' = [tpc EXCEPT ![t] = "done"]
    /\ wg' = wg - 1
    /\ UNCHANGED <<ovars, svars, cat, regions, world, rpc, ridx, mu, errCh, resClosed,
                   errClosed, fpc, cpc, all, errors, ret>>

\* --------------------------------------- the error send of a region goroutine
ErrWhat(c, w) ==
    CASE c = "LB" -> IF ~w.v2.ok THEN "LoadBalancers" ELSE "Classic LoadBalancers"
      [] c = "EIP" -> IF ~w.ok THEN "EIPs" ELSE "EIP associations"
      [] OTHER -> "ENIs"

SendErr(r) ==
    /\ cat \in ChannelCategories /\ rpc[r] = "senderr"
    /\ CanSendErr
    /\ errCh' = Append(errCh, ErrorString(r, ErrWhat(cat, world[r])))
    /\ Leave(r)
    /\ UNCHANGED <<mvars, svars, cat, regions, world, ridx, tpc, mu, resCh, resClosed,
                   errClosed, fpc, cpc, all, errors, ret>>

\* ------------------------------------------------------------ the finalizer
\* (variant: the finalizer closes without waiting for the counter)
FinalizerCloseResultsEarly ==
    /\ fpc = "wait"
    /\ resClosed' = TRUE
    /\ calls' = Bump(calls, CloseCall("results"))
    /\ fpc' = "closeErr"
    /\ UNCHANGED <<ovars, svars, cat, regions, world, rpc, ridx, tpc, wg, mu, resCh, errCh,
                   errClosed, cpc, all, errors, ret>>

\* wg.Wait(); close(results); close(errCh)
FinalizerCloseResults ==
    /\ fpc = "wait" /\ wg = 0
    /\ resClosed' = TRUE
    /\ calls' = Bump(calls, CloseCall("results"))
    /\ fpc' = "closeErr"
    /\ UNCHANGED <<ovars, svars, cat, regions, world, rpc, ridx, tpc, wg, mu, resCh, errCh,
                   errClosed, cpc, all, errors, ret>>

FinalizerCloseErrors ==
    /\ fpc = "closeErr"
    /\ errClosed' = TRUE
    /\ calls' = Bump(calls, CloseCall("errors"))
    /\ fpc' = "done"
    /\ UNCHANGED <<ovars, svars, cat, regions, world, rpc, ridx, tpc, wg, mu, resCh, errCh,
                   resClosed, cpc, all, errors, ret>>

\* ------------------------------------------------------------- the consumer
\* (variant: the received record replaces the list instead of extending it)
RecvResultAssign ==
    /\ cpc = "results" /\ resCh # <<>>
    /\ all' = <<Head(resCh)>>
    /\ resCh' = Tail(resCh)
    /\ UNCHANGED <<mvars, svars, cat, regions, world, rpc, ridx, tpc, wg, mu, errCh,
                   resClosed, errClosed, fpc, cpc, errors, ret>>

RecvResult ==
    /\ cpc = "results" /\ resCh # <<>>
    /\ all' = Append(all, Head(resCh))
    /\ resCh' = Tail(resCh)
    /\ UNCHANGED <<mvars, svars, cat, regions, world, rpc, ridx, tpc, wg, mu, errCh,
                   resClosed, errClosed, fpc, cpc, errors, ret>>

ResultsDrained ==
    /\ cpc = "results" /\ resCh = <<>> /\ resClosed
    /\ cpc' = "errors"
    /\ UNCHANGED <<mvars, svars, cat, regions, world, rpc, ridx, tpc, wg, mu, resCh, errCh,
                   resClosed, errClosed, fpc, all, errors, ret>>

RecvError ==
    /\ cpc = "errors" /\ errCh # <<>>
    /\ errors' = Append(errors, Head(errCh))
    /\ errCh' = Tail(errCh)
    /\ UNCHANGED <<mvars, svars, cat, regions, world, rpc, ridx, tpc, wg, mu, resCh,
                   resClosed, errClosed, fpc, cpc, all, ret>>

Return ==
    /\ cpc = "errors" /\ errCh = <<>> /\ errClosed
    /\ ret' = [records |-> all, err |-> CombinedError(errors)]
    /\ cpc' = "returned"
    /\ UNCHANGED <<mvars, svars, cat, regions, world, rpc, ridx, tpc, wg, mu, resCh, errCh,
                   resClosed, errClosed, fpc, all, errors>>

\* ------------------------------------------------------- fetchAllInstances
\* (variant: a failed listing is issued once more)
EC2ListFromRetry(r, worlds) ==
    /\ cat = "EC2" /\ rpc[r] = "list"
    /\ calls' = Bump(calls, ListingCall(r, ""))
    /\ \E w \in worlds :
          /\ world' = [world EXCEPT ![r] = w]
          /\ IF ~w.ok /\ Issued(ListingCall(r, "")) = 0 THEN UNCHANGED <<rpc, wg>>
             ELSE IF ~w.ok \/ fetchInstancesInRegion(w) = <<>> THEN Leave(r)
             ELSE rpc' = [rpc EXCEPT ![r] = "lock"] /\ wg' = wg
    /\ UNCHANGED <<ovars, svars, cat, regions, ridx, tpc, mu, resCh, errCh, resClosed,
                   errClosed, fpc, cpc, all, errors, ret>>

EC2ListFrom(r, worlds) ==
    /\ cat = "EC2" /\ rpc[r] = "list"
    /\ calls' = Bump(calls, ListingCall(r, ""))
    /\ \E w \in worlds :
          /\ world' = [world EXCEPT ![r] = w]
          /\ IF ~w.ok \/ fetchInstancesInRegion(w) = <<>> THEN Leave(r)
             ELSE rpc' = [rpc EXCEPT ![r] = "lock"] /\ wg' = wg
    /\ UNCHANGED <<ovars, svars, cat, regions, ridx, tpc, mu, resCh, errCh, resClosed,
                   errClosed, fpc, cpc, all, errors, ret>>

\* (variant: the append is entered without waiting for the mutex)
EC2LockUnguarded(r) ==
    /\ cat = "EC2" /\ rpc[r] = "lock"
    /\ mu' = r
    /\ rpc' = [rpc EXCEPT ![r] = "append"]
    /\ UNCHANGED <<mvars, svars, cat, regions, world, ridx, tpc, wg, resCh, errCh, resClosed,
                   errClosed, fpc, cpc, all, errors, ret>>

\* mu.Lock()
EC2Lock(r) ==
    /\ cat = "EC2" /\ rpc[r] = "lock"
    /\ mu = 0
    /\ mu' = r
    /\ rpc' = [rpc EXCEPT ![r] = "append"]
    /\ UNCHANGED <<mvars, svars, cat, regions, world, ridx, tpc, wg, resCh, errCh, resClosed,
                   errClosed, fpc, cpc, all, errors, ret>>

EC2AppendUnlock(r) ==
    /\ cat = "EC2" /\ rpc[r] = "append"
    /\ LET instances == fetchInstancesInRegion(world[r])
           i == ridx[r]
       IN /\ all' = Append(all, EC2InstanceInfo(r, i, instances[i]))
          /\ mu' = 0
          /\ IF i = Len(instances) THEN Leave(r) /\ ridx' = ridx
             ELSE /\ ridx' = [ridx EXCEPT ![r] = i + 1]
                  /\ rpc' = [rpc EXCEPT ![r] = "lock"]
                  /\ wg' = wg
    /\ UNCHANGED <<mvars, svars, cat, regions, world, tpc, resCh, errCh, resClosed,
                   errClosed, fpc, cpc, errors, ret>>

\* (variant: the list is returned without wg.Wait())
EC2ReturnEarly ==
    /\ cat = "EC2" /\ cpc = "wait"
    /\ ret' = [records |-> all, err |-> <<>>]
    /\ cpc' = "returned"
    /\ UNCHANGED <<mvars, svars, cat, regions, world, rpc, ridx, tpc, wg, mu, resCh, errCh,
                   resClosed, errClosed, fpc, all, errors>>

\* wg.Wait(); return allInstances, nil
EC2Return ==
    /\ cat = "EC2" /\ cpc = "wait" /\ wg = 0
    /\ ret' = [records |-> all, err |-> <<>>]
    /\ cpc' = "returned"
    /\ UNCHANGED <<mvars, svars, cat, regions, world, rpc, ridx, tpc, wg, mu, resCh, errCh,
                   resClosed, errClosed, fpc, all, errors>>

\* the region goroutines of Spec list against DetailWorlds
ENIList(r) == ENIListFrom(r, DetailWorlds("ENI"))

EIPList(r) == EIPListFrom(r, DetailWorlds("EIP"))

LBList(r) == LBListFrom(r, DetailWorlds("LB"))

EC2List(r) == EC2ListFrom(r, DetailWorlds("EC2"))

CollectorNext ==
    \/ \E r \in RegionIds :
          \/ ENIList(r) \/ ENIEmit(r)
          \/ EIPList(r) \/ EIPStep(r)
          \/ LBList(r) \/ LBRegionDone(r)
          \/ SendErr(r)
          \/ EC2List(r) \/ EC2Lock(r) \/ EC2AppendUnlock(r)
    \/ \E t \in LBTasks : LBTaskSend(t)
    \/ FinalizerCloseResults \/ FinalizerCloseErrors
    \/ RecvResult \/ ResultsDrained \/ RecvError \/ Return
    \/ EC2Return

Returned == cpc = "returned"

\* ------------------------------------------- a collector run, start to end
\* What one invocation of fetchAllENIs / fetchAllInstances /
\* fetchAllLoadBalancers / fetchAllEIPs does with the answers W of the
\* regions: whether it returns, the records and the errors it returns.
FirstLookupError(items) ==
    LET bad == {i \in 1..Len(items) : items[i].kind = "lookupError"}
    IN IF bad = {} THEN Len(items) + 1 ELSE CHOOSE i \in bad : \A j \in bad : i <= j

Emitted(c, r, w) ==
    CASE c = "ENI" ->
           IF w.ok THEN {ENIInfo(r, i, fetchENIsInRegion(w)[i]) : i \in 1..Len(fetchENIsInRegion(w))}
           ELSE {}
      [] c = "EC2" ->
           IF w.ok THEN {EC2InstanceInfo(r, i, fetchInstancesInRegion(w)[i]) :
                            i \in 1..Len(fetchInstancesInRegion(w))}
           ELSE {}
      [] c = "EIP" ->
           {EIPInfo(r, i, w.items[i]) :
               i \in {j \in 1..Len(w.items) :
                         j < FirstLookupError(w.items) /\ w.items[j].kind # "instance"}}
      [] c = "LB" ->
           IF w.v2.ok /\ w.classic.ok
           THEN UNION {{LoadBalancerInfo(r, k, i, w[k].items[i]) : i \in 1..Len(w[k].items)} :
                          k \in LBKinds}
           ELSE {}

SendsError(c, w) ==
    CASE c = "ENI" -> ~w.ok
      [] c = "EC2" -> FALSE
      [] c = "EIP" -> ~w.ok \/ FirstLookupError(w.items) <= Len(w.items)
      [] c = "LB" -> ~w.v2.ok \/ ~w.classic.ok

CollectorRecords(c, W) == UNION {Emitted(c, r, W[r]) : r \in DOMAIN W}

CollectorErrors(c, W) ==
    {ErrorString(r, ErrWhat(c, W[r])) : r \in {x \in DOMAIN W : SendsError(c, W[x])}}

\* a load-balancer region goroutine that has an error to send never gets to
\* send it, and the invocation never returns
CollectorReturns(c, W) == c = "LB" => CollectorErrors(c, W) = {}

Perms(S) == {s \in [1..Cardinality(S) -> S] : \A i, j \in 1..Cardinality(S) : s[i] = s[j] => i = j}

\* ------------------------------------------------- tables and ChannelData
NilTable == [nil |-> TRUE, rows |-> <<>>]

Table(rows) == [nil |-> FALSE, rows |-> rows]

\* (variant: one decimal digit)
FormatMoneyOneDecimal(c) == <<c \div 100, (c % 100) \div 10, 0>>

\* fmt.Sprintf("%.2f", cost): the whole part and two decimal digits
FormatMoney(c) == <<c \div 100, (c % 100) \div 10, c % 10>>

ParseMoney(m) == m[1] * 100 + m[2] * 10 + m[3]

\* strconv.Itoa: the decimal digits
RECURSIVE Itoa(_)
Itoa(n) == IF n < 10 THEN <<n>> ELSE Append(Itoa(n \div 10), n % 10)

RECURSIVE Atoi(_)
Atoi(d) == IF Len(d) = 1 THEN d[1]
           ELSE Atoi(SubSeq(d, 1, Len(d) - 1)) * 10 + d[Len(d)]

\* the cells the table shows for a record (table.SetCell(row, ...))
Cells(c, rec) ==
    CASE c = "ENI" -> [region |-> rec.region, ip |-> rec.ip, id |-> rec.id,
                       cost |-> FormatMoney(rec.cost)]
      [] c = "EC2" -> [region |-> rec.region, id |-> rec.id, ip |-> rec.ip,
                       cost |-> FormatMoney(rec.cost)]
      [] c = "EIP" -> [region |-> rec.region, ip |-> rec.ip, target |-> rec.target,
                       cost |-> FormatMoney(rec.cost)]
      [] c = "LB" -> [region |-> rec.region, type |-> rec.type,
                      ipCount |-> Itoa(rec.ipCount), cost |-> FormatMoney(rec.cost)]

\* the table once the loop over the sorted records has set its cells
FilledTable(c, rows) ==
    [nil |-> FALSE, rows |-> rows, cells |-> [i \in 1..Len(rows) |-> Cells(c, rows[i])]]

ChannelData(table, count, cost, err) ==
    [table |-> table, count |-> count, cost |-> cost, err |-> err]

NoData == ChannelData(NilTable, 0, 0, <<>>)

\* the getIP closures: the record's public IP, for a load balancer the first
\* resolved IP and "" when there is none
getIP(c, rec) == IF c = "LB" THEN (IF Len(rec.ips) > 0 THEN rec.ips[1] ELSE NoIP) ELSE rec.ip

\* net.ParseIP yields nil for ""
ParsesAsIP(ip) == ip # NoIP

\* sort.Slice with "less" false whenever either key fails to parse: the
\* orders it can leave the records in
sortStructsByIP(c, recs) ==
    {s \in Perms(recs) :
        (\A x \in recs : ParsesAsIP(getIP(c, x))) =>
            \A i, j \in 1..Len(s) : i < j => getIP(c, s[i]) <= getIP(c, s[j])}

\* (variant: the running total is overwritten by each row)
RowCostsLast(rows) == IF rows = <<>> THEN <<>> ELSE <<rows[Len(rows)].cost>>

RowCosts(rows) == [i \in 1..Len(rows) |-> rows[i].cost]

\* (variant: each load balancer counts for one)
RowIPCountsPerLB(rows) == [i \in 1..Len(rows) |-> 1]

RowIPCounts(rows) == [i \in 1..Len(rows) |-> rows[i].ipCount]

\* createAndPopulateENIsTable / ...InstancesTable / ...LBTable / ...EIPsTable
\* applied to what the collector returned and the order the sort left
createAndPopulateTable(c, rows, err) ==
    IF HasError(err) THEN [table |-> NilTable, count |-> 0, cost |-> 0, err |-> err]
    ELSE [table |-> FilledTable(c, rows),
          count |-> IF c = "LB" THEN SeqSum(RowIPCounts(rows)) ELSE Len(rows),
          cost |-> SeqSum(RowCosts(rows)),
          err |-> <<>>]

fetchTableData(t) ==
    IF HasError(t.err) THEN ChannelData(NilTable, 0, 0, t.err)
    ELSE ChannelData(t.table, t.count, t.cost, <<>>)

\* -------------------------------------------------------- the coordinator
TimeoutForEC2 == 20
TimeoutForLB == 20
TimeoutForEIP == 20
TimeoutForENI == 20

MaxDelay == 2
ClockCap == TimeoutForENI + MaxDelay + 2

\* (variant: the entries in the order of the parameters of unpackChannelData)
channelsByParameter == <<[ch |-> "EC2", timeout |-> TimeoutForEC2],
                         [ch |-> "LB", timeout |-> TimeoutForLB],
                         [ch |-> "EIP", timeout |-> TimeoutForEIP],
                         [ch |-> "ENI", timeout |-> TimeoutForENI]>>

\* the "channels" slice of unpackChannelData
channels == <<[ch |-> "ENI", timeout |-> TimeoutForENI],
              [ch |-> "EC2", timeout |-> TimeoutForEC2],
              [ch |-> "LB", timeout |-> TimeoutForLB],
              [ch |-> "EIP", timeout |-> TimeoutForEIP]>>

\* the channel each goroutine of ipCostsView is handed
ChannelOfSwapped(p) == IF p = "LB" THEN "EIP" ELSE p

ChannelOf(p) == p

\* "%v" of a channel prints its address
FormatChan(c) ==
    CASE c = "ENI" -> "0xc000020120"
      [] c = "EC2" -> "0xc000020060"
      [] c = "LB" -> "0xc0000200c0"
      [] c = "EIP" -> "0xc0000200f0"

NoError == [kind |-> "none", text |-> <<>>]

FetchError(err) == [kind |-> "fetch", text |-> err]

ClosedError == [kind |-> "closed", text |-> <<"channel was closed before data was received">>]

TimeoutError(c) ==
    [kind |-> "timeout", text |-> <<"timeout waiting for data from", FormatChan(c), "channel">>]

NoOut == [done |-> FALSE, tables |-> <<>>, counts |-> <<>>, costs |-> <<>>, err |-> NoError]

\* (variant: an abort hands back the categories received so far)
UnpackAbortPartial(d, k, e) ==
    [done |-> TRUE,
     tables |-> [i \in 1..(k - 1) |-> d[channels[i].ch].table],
     counts |-> [i \in 1..(k - 1) |-> d[channels[i].ch].count],
     costs |-> [i \in 1..(k - 1) |-> d[channels[i].ch].cost],
     err |-> e]

\* return nil, nil, nil, err
UnpackAbort(d, k, e) ==
    [done |-> TRUE, tables |-> <<>>, counts |-> <<>>, costs |-> <<>>, err |-> e]

\* (variant: the three slices in the order of the parameters ec2, lb, eip, eni)
UnpackAllByParameter(d) ==
    LET order == <<"EC2", "LB", "EIP", "ENI">>
    IN [done |-> TRUE,
        tables |-> [i \in 1..Len(order) |-> d[order[i]].table],
        counts |-> [i \in 1..Len(order) |-> d[order[i]].count],
        costs |-> [i \in 1..Len(order) |-> d[order[i]].cost],
        err |-> NoError]

\* return tables, counts, costs, nil
UnpackAll(d) ==
    [done |-> TRUE,
     tables |-> [i \in 1..Len(channels) |-> d[channels[i].ch].table],
     counts |-> [i \in 1..Len(channels) |-> d[channels[i].ch].count],
     costs |-> [i \in 1..Len(channels) |-> d[channels[i].ch].cost],
     err |-> NoError]

ScanRegions == {1, 2}

\* the answers a region can give to the collectors of a scan
ScanWorlds(c) ==
    CASE c \in {"ENI", "EC2"} -> {ListingFailed, Listing(<<>>), Listing(<<2, NoIP, 1>>)}
      [] c = "EIP" -> {ListingFailed,
                       Listing(<<[ip |-> 1, kind |-> "idle"]>>),
                       Listing(<<[ip |-> 2, kind |-> "nat"], [ip |-> 1, kind |-> "lookupError"]>>)}
      [] c = "LB" -> {[v2 |-> ListingFailed, classic |-> Listing(<<>>)],
                      [v2 |-> Listing(<<>>), classic |-> ListingFailed],
                      [v2 |-> Listing(<<>>), classic |-> Listing(<<>>)],
                      [v2 |-> Listing(<<[type |-> "application", dns |-> <<2, 1>>, dnsErr |-> FALSE,
                                         metric |-> MetricData(5)]>>),
                       classic |-> Listing(<<[type |-> "classic", dns |-> <<>>, dnsErr |-> FALSE,
                                              metric |-> MetricError]>>)]}

ScanInputs(c) == [ScanRegions -> ScanWorlds(c)]

\* the answers used where only the kind of outcome matters
PlainInputs(c) ==
    {W \in ScanInputs(c) :
        /\ W[2] = (IF c = "LB" THEN [v2 |-> Listing(<<>>), classic |-> Listing(<<>>)]
                   ELSE IF c = "EIP" THEN Listing(<<[ip |-> 1, kind |-> "idle"]>>)
                   ELSE Listing(<<>>))
        /\ W[1] \in {W[2], NoWorld(c)}}

NoInput == [r \in ScanRegions |-> ListingFailed]

\* nothing sent, nothing received, the clock at 0
CoordinatorIdle ==
    /\ pin = [p \in Categories |-> NoInput]
    /\ pmsg = [p \in Categories |-> NoData]
    /\ chClosed = [c \in Categories |-> FALSE]
    /\ chanLog = [c \in Categories |-> <<>>]
    /\ widx = 1
    /\ data = [c \in Categories |-> NoData]
    /\ out = NoOut
    /\ now = 0
    /\ waitStart = 0
    /\ maxReady = 0
    /\ doneAt = 0

ScanInit ==
    /\ ppc = [p \in Categories |-> "fetching"]
    /\ CoordinatorIdle
    /\ mpc = "running"
    /\ chans = Categories
    /\ tags = <<>>
    /\ nameTag = ""
    /\ sn = <<>>
    /\ calls = <<>>

Min(a, b) == IF a < b THEN a ELSE b

Max(a, b) == IF a > b THEN a ELSE b

\* (variant: a producer whose fetch failed returns without sending)
FetchDoneSilentOnError(p, inputs) ==
    /\ ~out.done /\ ppc[p] = "fetching"
    /\ \E W \in inputs :
          /\ CollectorReturns(p, W)
          /\ \E rows \in sortStructsByIP(p, CollectorRecords(p, W)),
                errs \in Perms(CollectorErrors(p, W)) :
                pmsg' = [pmsg EXCEPT ![p] =
                            fetchTableData(createAndPopulateTable(p, rows, CombinedError(errs)))]
          /\ pin' = [pin EXCEPT ![p] = W]
    /\ IF HasError(pmsg'[p].err)
       THEN /\ ppc' = [ppc EXCEPT ![p] = "closed"]
            /\ chClosed' = [chClosed EXCEPT ![ChannelOf(p)] = TRUE]
       ELSE /\ ppc' = [ppc EXCEPT ![p] = "sending"]
            /\ chClosed' = chClosed
    /\ maxReady' = Max(maxReady, Min(now, MaxDelay + 1))
    /\ UNCHANGED <<mvars, cvars, chanLog, widx, data, out, now, waitStart, doneAt>>

\* fetchTableData up to its send: the collector runs and returns, the table
\* is sorted and filled, the ChannelData is built
FetchDone(p, inputs) ==
    /\ ~out.done /\ ppc[p] = "fetching"
    /\ \E W \in inputs :
          /\ CollectorReturns(p, W)
          /\ \E rows \in sortStructsByIP(p, CollectorRecords(p, W)),
                errs \in Perms(CollectorErrors(p, W)) :
                pmsg' = [pmsg EXCEPT ![p] =
                            fetchTableData(createAndPopulateTable(p, rows, CombinedError(errs)))]
          /\ pin' = [pin EXCEPT ![p] = W]
    /\ ppc' = [ppc EXCEPT ![p] = "sending"]
    /\ maxReady' = Max(maxReady, Min(now, MaxDelay + 1))
    /\ UNCHANGED <<mvars, cvars, chClosed, chanLog, widx, data, out, now, waitStart, doneAt>>

\* a fetch function panics (a nil field dereferenced): the deferred close runs
ProducerPanic(p) ==
    /\ ~out.done /\ ppc[p] = "fetching"
    /\ ppc' = [ppc EXCEPT ![p] = "panicked"]
    /\ chClosed' = [chClosed EXCEPT ![ChannelOf(p)] = TRUE]
    /\ UNCHANGED <<mvars, cvars, pin, pmsg, chanLog, widx, data, out, now, waitStart,
                   maxReady, doneAt>>

Waiting == channels[widx]

\* (variant: a result that carries an error is stored and the loop goes on)
CoordRecvPastError(p) ==
    /\ ~out.done
    /\ ppc[p] = "sending" /\ ChannelOf(p) = Waiting.ch /\ ~chClosed[Waiting.ch]
    /\ ppc' = [ppc EXCEPT ![p] = "closed"]
    /\ chClosed' = [chClosed EXCEPT ![Waiting.ch] = TRUE]
    /\ chanLog' = [chanLog EXCEPT ![Waiting.ch] = Append(@, [from |-> p, data |-> pmsg[p]])]
    /\ data' = [data EXCEPT ![Waiting.ch] = pmsg[p]]
    /\ IF widx = Len(channels)
       THEN /\ out' = IF HasError(pmsg[p].err)
                      THEN UnpackAbort(data', widx, FetchError(pmsg[p].err))
                      ELSE UnpackAll(data')
            /\ doneAt' = now
            /\ UNCHANGED <<widx, waitStart>>
       ELSE /\ widx' = widx + 1
            /\ waitStart' = now
            /\ UNCHANGED <<out, doneAt>>
    /\ UNCHANGED <<mvars, cvars, pin, pmsg, now, maxReady>>

\* (variant: the timers of all channels run from the start of the scan)
CoordRecvTimerFromStart(p) ==
    /\ ~out.done
    /\ ppc[p] = "sending" /\ ChannelOf(p) = Waiting.ch /\ ~chClosed[Waiting.ch]
    /\ ppc' = [ppc EXCEPT ![p] = "closed"]
    /\ chClosed' = [chClosed EXCEPT ![Waiting.ch] = TRUE]
    /\ chanLog' = [chanLog EXCEPT ![Waiting.ch] = Append(@, [from |-> p, data |-> pmsg[p]])]
    /\ data' = [data EXCEPT ![Waiting.ch] = pmsg[p]]
    /\ IF HasError(pmsg[p].err)
       THEN /\ out' = UnpackAbort(data', widx, FetchError(pmsg[p].err))
            /\ doneAt' = now
            /\ UNCHANGED <<widx, waitStart>>
       ELSE IF widx = Len(channels)
       THEN /\ out' = UnpackAll(data')
            /\ doneAt' = now
            /\ UNCHANGED <<widx, waitStart>>
       ELSE /\ widx' = widx + 1
            /\ UNCHANGED <<out, doneAt, waitStart>>
    /\ UNCHANGED <<mvars, cvars, pin, pmsg, now, maxReady>>

\* case data, ok := <-ch.ch with ok true: the send of producer p completes,
\* p returns and its deferred close runs
CoordRecv(p) ==
    /\ ~out.done
    /\ ppc[p] = "sending" /\ ChannelOf(p) = Waiting.ch /\ ~chClosed[Waiting.ch]
    /\ ppc' = [ppc EXCEPT ![p] = "closed"]
    /\ chClosed' = [chClosed EXCEPT ![Waiting.ch] = TRUE]
    /\ chanLog' = [chanLog EXCEPT ![Waiting.ch] = Append(@, [from |-> p, data |-> pmsg[p]])]
    /\ data' = [data EXCEPT ![Waiting.ch] = pmsg[p]]
    /\ IF HasError(pmsg[p].err)
       THEN /\ out' = UnpackAbort(data', widx, FetchError(pmsg[p].err))
            /\ doneAt' = now
            /\ UNCHANGED <<widx, waitStart>>
       ELSE IF widx = Len(channels)
       THEN /\ out' = UnpackAll(data')
            /\ doneAt' = now
            /\ UNCHANGED <<widx, waitStart>>
       ELSE /\ widx' = widx + 1
            /\ waitStart' = now
            /\ UNCHANGED <<out, doneAt>>
    /\ UNCHANGED <<mvars, cvars, pin, pmsg, now, maxReady>>

\* case data, ok := <-ch.ch with ok false
CoordClosed ==
    /\ ~out.done
    /\ chClosed[Waiting.ch]
    /\ out' = UnpackAbort(data, widx, ClosedError)
    /\ doneAt' = now
    /\ UNCHANGED <<mvars, cvars, ppc, pin, pmsg, chClosed, chanLog, widx, data, now,
                   waitStart, maxReady>>

\* (variant: the timeouts of the entries already waited for add up)
ExpiredCumulative == now - waitStart >= widx * Waiting.timeout

Expired == now - waitStart >= Waiting.timeout

\* case <-time.After(ch.timeout)
CoordTimeout ==
    /\ ~out.done
    /\ out' = UnpackAbort(data, widx, TimeoutError(Waiting.ch))
    /\ doneAt' = now
    /\ UNCHANGED <<mvars, cvars, ppc, pin, pmsg, chClosed, chanLog, widx, data, now,
                   waitStart, maxReady>>

CoordTimeoutAt == Expired /\ CoordTimeout

\* time passes while the coordinator has nothing to do
Tick ==
    /\ ~out.done /\ now < ClockCap
    /\ ~Expired
    /\ ~chClosed[Waiting.ch]
    /\ \A p \in Categories : ~(ppc[p] = "sending" /\ ChannelOf(p) = Waiting.ch)
    /\ now' = now + 1
    /\ UNCHANGED <<mvars, cvars, ppc, pin, pmsg, chClosed, chanLog, widx, data, out,
                   waitStart, maxReady, doneAt>>

\* one collector invocation, nothing else running
CollectorIdle == CollectorInit({"ENI"}, 0)

Init == CollectorInit(Categories, MaxRegions) /\ ScanInit

Next == CollectorNext

Spec == Init /\ [][Next]_vars

\* a scan, the timer of the coordinator free to fire at any moment
ScanStart == CollectorIdle /\ ScanInit

ScanNext ==
    \/ \E p \in Categories : FetchDone(p, ScanInputs(p)) \/ ProducerPanic(p) \/ CoordRecv(p)
    \/ CoordClosed
    \/ CoordTimeout

ScanSpec == ScanStart /\ [][ScanNext]_vars

\* a scan against the clock
TimedNext ==
    \/ \E p \in Categories : FetchDone(p, PlainInputs(p)) \/ ProducerPanic(p) \/ CoordRecv(p)
    \/ CoordClosed
    \/ CoordTimeoutAt
    \/ Tick

TimedScanSpec == ScanStart /\ [][TimedNext]_vars

\* fetchAllENIs / fetchAllEIPs with a region that holds one record more than
\* the results channel has slots
BulkSize(n) == n * ChanSlotsPerRegion + 1

BulkItems(c, n) == [i \in 1..n |-> IF c = "EIP" THEN [ip |-> 1, kind |-> "idle"] ELSE 1]

BulkWorlds(c, r) ==
    IF r = 1
    THEN {ListingFailed, Listing(BulkItems(c, BulkSize(Cardinality(regions))))}
         \cup (IF c = "EIP"
               THEN {Listing(BulkItems(c, BulkSize(Cardinality(regions)))
                             \o <<[ip |-> 1, kind |-> "lookupError"]>>)}
               ELSE {})
    ELSE {ListingFailed, Listing(<<>>)}

BulkInit == CollectorInit({"ENI", "EIP"}, MaxRegions) /\ ScanInit

BulkNext ==
    \/ \E r \in RegionIds :
          \/ ENIListFrom(r, BulkWorlds("ENI", r)) \/ ENIEmit(r)
          \/ EIPListFrom(r, BulkWorlds("EIP", r)) \/ EIPStep(r)
          \/ SendErr(r)
    \/ FinalizerCloseResults \/ FinalizerCloseErrors
    \/ RecvResult \/ ResultsDrained \/ RecvError \/ Return

\* every goroutine that can run is eventually run
BulkSpec == BulkInit /\ [][BulkNext]_vars /\ WF_vars(BulkNext)

\* One category from the listings to the ChannelData its producer sends:
\* the collector runs goroutine by goroutine, then its
\* createAndPopulate...Table sorts what it returned and fills the table.
CategoryWorlds(c) ==
    CASE c \in {"ENI", "EC2"} -> ScanWorlds(c)
      [] c = "EIP" ->
           {ListingFailed,
            Listing(<<[ip |-> 2, kind |-> "idle"], [ip |-> 1, kind |-> "instance"]>>),
            Listing(<<[ip |-> 1, kind |-> "nat"]>>),
            Listing(<<[ip |-> 3, kind |-> "idle"]>>),
            Listing(<<[ip |-> 2, kind |-> "nat"], [ip |-> 1, kind |-> "lookupError"]>>)}
      [] c = "LB" ->
           {[v2 |-> ListingFailed, classic |-> Listing(<<>>)],
            [v2 |-> Listing(<<[type |-> "application", dns |-> <<3, 2, 1>>, dnsErr |-> FALSE,
                               metric |-> MetricData(5)]>>),
             classic |-> Listing(<<>>)],
            [v2 |-> Listing(<<[type |-> "network", dns |-> <<1, 1>>, dnsErr |-> FALSE,
                               metric |-> MetricError]>>),
             classic |-> Listing(<<>>)],
            [v2 |-> Listing(<<[type |-> "gateway", dns |-> <<1>>, dnsErr |-> FALSE,
                               metric |-> MetricData(5)]>>),
             classic |-> Listing(<<>>)],
            [v2 |-> Listing(<<>>),
             classic |-> Listing(<<[type |-> "classic", dns |-> <<>>, dnsErr |-> TRUE,
                                    metric |-> MetricError]>>)]}

\* createAndPopulate...Table after its fetchAll... call, and fetchTableData
\* up to its send
PopulateTable ==
    /\ Returned /\ ppc[cat] = "fetching"
    /\ \E rows \in sortStructsByIP(cat, Range(ret.records)) :
          pmsg' = [pmsg EXCEPT ![cat] =
                      fetchTableData(createAndPopulateTable(cat, rows, ret.err))]
    /\ ppc' = [ppc EXCEPT ![cat] = "sending"]
    /\ UNCHANGED <<mvars, cvars, pin, chClosed, chanLog, widx, data, out, now, waitStart,
                   maxReady, doneAt>>

CategoryNext ==
    \/ \E r \in RegionIds :
          \/ ENIListFrom(r, CategoryWorlds("ENI")) \/ ENIEmit(r)
          \/ EIPListFrom(r, CategoryWorlds("EIP")) \/ EIPStep(r)
          \/ LBListFrom(r, CategoryWorlds("LB")) \/ LBRegionDone(r)
          \/ SendErr(r)
          \/ EC2ListFrom(r, CategoryWorlds("EC2")) \/ EC2Lock(r) \/ EC2AppendUnlock(r)
    \/ \E t \in LBTasks : LBTaskSend(t)
    \/ FinalizerCloseResults \/ FinalizerCloseErrors
    \/ RecvResult \/ ResultsDrained \/ RecvError \/ Return
    \/ EC2Return
    \/ PopulateTable

CategorySpec == Init /\ [][CategoryNext]_vars

\* --------------------------------------------------- notions of the claims
\* the regional fetch of r has run and failed (a listing, or a per-address lookup)
RegionFetchFailed(c, w) ==
    CASE c = "LB" -> ~w.v2.ok \/ ~w.classic.ok
      [] c = "EIP" -> ~w.ok \/ \E i \in 1..Len(w.items) : w.items[i].kind = "lookupError"
      [] OTHER -> ~w.ok

Queried(r) == r \in regions /\ rpc[r] # "list"

RegionFailed(r) == Queried(r) /\ RegionFetchFailed(cat, world[r])

RegionSucceeded(r) == Queried(r) /\ ~RegionFetchFailed(cat, world[r])

\* the records a region holds that its category reports
Qualifying(c, r, w) ==
    CASE c = "ENI" -> {ENIInfo(r, i, fetchENIsInRegion(w)[i]) : i \in 1..Len(fetchENIsInRegion(w))}
      [] c = "EC2" -> {EC2InstanceInfo(r, i, fetchInstancesInRegion(w)[i]) :
                          i \in 1..Len(fetchInstancesInRegion(w))}
      [] c = "EIP" -> {EIPInfo(r, i, w.items[i]) :
                          i \in {j \in 1..Len(w.items) : w.items[j].kind # "instance"}}
      [] c = "LB" -> UNION {{LoadBalancerInfo(r, k, i, w[k].items[i]) : i \in 1..Len(w[k].items)} :
                                k \in LBKinds}

ErrorRegions(e) == {e[i].region : i \in 1..Len(e)}

\* The run of a collector, goroutine by goroutine, ends as CollectorReturns,
\* CollectorRecords and CollectorErrors say.
CollectorRunAgrees ==
    LET W == [r \in regions |-> world[r]]
    IN /\ Returned =>
             /\ CollectorReturns(cat, W)
             /\ Range(ret.records) = CollectorRecords(cat, W)
             /\ Len(ret.records) = Cardinality(CollectorRecords(cat, W))
             /\ Range(ret.err) = CollectorErrors(cat, W)
             /\ Len(ret.err) = Cardinality(CollectorErrors(cat, W))
       /\ (~Returned /\ (\A r \in regions : Queried(r)) /\ CollectorReturns(cat, W))
             => ENABLED CollectorNext

\* C1 (as claimed): a fetchAllLoadBalancers invocation that has not returned
\* can always take a further step, so it does return, and what it returns
\* carries a combined error exactly when some region failed.
C1_LBAlwaysReturns ==
    cat = "LB" =>
        /\ ~Returned => ENABLED CollectorNext
        /\ Returned => (HasError(ret.err) <=> \E r \in regions : RegionFailed(r))

\* C3 (as claimed): when a collector returns and some regional fetch failed,
\* the combined error it returns is non-empty.
C3_FailureSurfaced ==
    (Returned /\ \E r \in regions : RegionFailed(r)) => HasError(ret.err)

\* C4 (as claimed): no returned record belongs to a region for which the
\* collector recorded a failure.
C4_NoRecordOfFailedRegion ==
    Returned => \A i \in 1..Len(ret.records) :
                    ret.records[i].region \notin ErrorRegions(ret.err)

\* C5: a returned record set holds every qualifying record of every region
\* whose fetch succeeded, each exactly once, whatever the siblings did.
C5_SucceededRegionsComplete ==
    Returned => \A r \in regions : RegionSucceeded(r) =>
                    \A q \in Qualifying(cat, r, world[r]) : CountIn(ret.records, q) = 1

C5_Witness ==
    /\ Returned /\ cat \in {"ENI", "EIP", "EC2"}
    /\ \E r1, r2 \in regions :
          /\ RegionFailed(r1)
          /\ RegionSucceeded(r2) /\ Cardinality(Qualifying(cat, r2, world[r2])) >= 2

\* C6: when no regional fetch and no per-record lookup failed, the collector
\* goes on to return, and it returns no combined error.
C6_NoFailureNoError ==
    (\A r \in regions : ~RegionFailed(r)) =>
        /\ ~Returned => ENABLED CollectorNext
        /\ Returned => ~HasError(ret.err)

C6_Witness ==
    /\ Returned /\ cat = "LB" /\ regions = RegionIds
    /\ \A r \in regions : RegionSucceeded(r)
    /\ Len(ret.records) >= 2 /\ ~HasError(ret.err)

\* ------------------------------------------------------- claims on the scan
ScanDone == out.done

Delivered(p) == ppc[p] \in {"sending", "closed"}

FailedIn(p) == {r \in ScanRegions : RegionFetchFailed(p, pin[p][r])}

\* C2 (as claimed): when every category delivers, none aborts the wait, no
\* category failed in all its regions and some category failed in one, the
\* scan yields all four categories, each with the records of its regions
\* that succeeded.
C2_PartialFailureKeepsSnapshot ==
    ( /\ ScanDone
      /\ out.err.kind \notin {"timeout", "closed"}
      /\ \A p \in Categories : Delivered(p) /\ FailedIn(p) # ScanRegions
      /\ \E p \in Categories : FailedIn(p) # {} )
    => /\ out.err.kind = "none"
       /\ Len(out.tables) = 4
       /\ \A i \in 1..Len(out.tables) :
             LET c == channels[i].ch
             IN \A r \in ScanRegions \ FailedIn(c) :
                   Qualifying(c, r, pin[c][r]) \subseteq Range(out.tables[i].rows)

\* C7: unpackChannelData returns nothing before it is done, and then either
\* four tables, four counts and four costs with no error, or an error and
\* no table, count or cost at all.
C7_AllOrNothing ==
    /\ ~ScanDone => out = NoOut
    /\ ScanDone =>
          \/ /\ out.err.kind = "none"
             /\ Len(out.tables) = 4 /\ Len(out.counts) = 4 /\ Len(out.costs) = 4
             /\ \A i \in 1..4 : ~out.tables[i].nil
          \/ /\ out.err.kind # "none"
             /\ out.tables = <<>> /\ out.counts = <<>> /\ out.costs = <<>>

C7_Witness ==
    /\ ScanDone /\ out.err.kind = "none" /\ Len(out.tables) = 4
    /\ \A i \in 1..4 : Len(out.tables[i].rows) >= 1

\* the names a user knows a category by
CategoryNames(c) ==
    CASE c = "ENI" -> {"ENI", "ENIs", "eni", "Network Interfaces", "Elastic Network Interfaces"}
      [] c = "EC2" -> {"EC2", "ec2", "Instances", "EC2 Instances"}
      [] c = "LB" -> {"LB", "LBs", "lb", "Load Balancers", "Load balancers"}
      [] c = "EIP" -> {"EIP", "EIPs", "eip", "Elastic IPs"}

\* C8 (as claimed): an abort on a timeout or on a channel closed without a
\* message returns an error whose text names the category waited for.
C8_AbortNamesCategory ==
    (ScanDone /\ out.err.kind \in {"timeout", "closed"}) =>
        \E i \in 1..Len(out.err.text) : out.err.text[i] \in CategoryNames(Waiting.ch)

\* C9: with one category silent and the other three ready by time d, the
\* scan is over by time 20 + d, it ends in an error, and when that error is
\* the timeout it is the silent category's, 20 units after its wait began.
Silent == {p \in Categories : ppc[p] = "fetching"}

OneSilentOthersPrompt ==
    /\ Cardinality(Silent) = 1
    /\ \A p \in Categories \ Silent : Delivered(p)
    /\ maxReady <= MaxDelay

C9_ErrorAtOneTimeout ==
    OneSilentOthersPrompt =>
        /\ ~ScanDone => now <= TimeoutForENI + maxReady
        /\ ScanDone =>
              /\ out.err.kind # "none"
              /\ doneAt <= TimeoutForENI + maxReady
              /\ out.err.kind = "timeout" =>
                    /\ Waiting.ch \in Silent
                    /\ doneAt >= Waiting.timeout
                    /\ doneAt = waitStart + Waiting.timeout

C9_Witness ==
    /\ ScanDone /\ OneSilentOthersPrompt
    /\ Silent = {"EIP"}
    /\ out.err.kind = "timeout"
    /\ maxReady = MaxDelay
    /\ doneAt = TimeoutForEIP + MaxDelay

\* C10: a category channel carries at most one message, a message on it was
\* sent by that category's producer, and a producer that has returned from
\* its fetch function, with a result or with an error, has sent exactly its
\* one message before its channel was closed.
C10_OneMessagePerChannel ==
    /\ \A c \in Categories :
          /\ Len(chanLog[c]) <= 1
          /\ \A i \in 1..Len(chanLog[c]) : chanLog[c][i].from = c
    /\ \A p \in Categories :
          /\ ppc[p] = "closed" => chanLog[p] = <<[from |-> p, data |-> pmsg[p]]>>
          /\ ppc[p] \in {"fetching", "sending", "panicked"} => chanLog[p] = <<>>
          /\ (chClosed[p] /\ ppc[p] # "panicked") => ppc[p] = "closed"

C10_Witness ==
    \E p, q \in Categories :
        /\ ppc[p] = "closed" /\ ~HasError(pmsg[p].err) /\ Len(chanLog[p]) = 1
        /\ ppc[q] = "closed" /\ HasError(pmsg[q].err) /\ Len(chanLog[q]) = 1

\* C11: fetchAllENIs and fetchAllEIPs always return, also when a region holds
\* more records than the results channel has slots and whatever regions
\* fail: all region goroutines finish, the finalizer closes both channels,
\* both drain loops end with the channels empty.
Finished ==
    /\ Returned
    /\ \A r \in regions : rpc[r] = "done"
    /\ wg = 0 /\ fpc = "done"
    /\ resClosed /\ errClosed /\ resCh = <<>> /\ errCh = <<>>

C11_BufferedCollectorsReturn == <>Finished

C11_Witness ==
    /\ Finished /\ regions # {}
    /\ Len(ret.records) > ResCap
    /\ HasError(ret.err)
\* C12: every record a collector has emitted, received or returned carries
\* a region of the region set handed to the collector, that region's
\* listing has succeeded, and the record is the one built from the resource
\* at its position in that region's listing.
EmittedRecords == Range(resCh) \cup Range(all) \cup Range(ret.records)

C12_RecordRegion ==
    \A rec \in EmittedRecords :
        /\ rec.region \in regions
        /\ Queried(rec.region)
        /\ ~(IF cat = "LB" THEN ~world[rec.region].v2.ok \/ ~world[rec.region].classic.ok
             ELSE ~world[rec.region].ok)
        /\ rec \in Qualifying(cat, rec.region, world[rec.region])

C12_Witness ==
    /\ Returned /\ cat = "LB" /\ regions = RegionIds
    /\ world[1] # world[2]
    /\ \E a, b \in Range(ret.records) : a.region = 1 /\ b.region = 2
\* the table of the category is built and its ChannelData is ready to send
TableBuilt == Returned /\ ppc[cat] = "sending"

NoFailure == \A r \in regions : RegionSucceeded(r)

\* C13: an Elastic IP record costs 7.30 when its association target is
\* empty and 3.65 when a target was resolved, on the channel, in the
\* collected and returned lists and in the rows of the table.
C13_EIPRecordCost ==
    cat = "EIP" =>
        \A rec \in EmittedRecords \cup Range(pmsg["EIP"].table.rows) :
            /\ rec.target = "" => rec.cost = 730
            /\ rec.target # "" => rec.cost = 365

C13_Witness ==
    /\ TableBuilt /\ cat = "EIP"
    /\ \E a, b \in Range(pmsg["EIP"].table.rows) :
          /\ a.target = "" /\ a.cost = 730
          /\ b.target = "NAT Gateway" /\ b.cost = 365
\* the addresses of a kind that the listings of the regions returned
AddressesOfKind(k) ==
    UNION {{<<r, i>> : i \in {j \in 1..Len(world[r].items) : world[r].items[j].kind = k}} :
              r \in regions}

Unassociated == Cardinality(AddressesOfKind("idle"))

OnNATGateway == Cardinality(AddressesOfKind("nat"))

OnInstance == Cardinality(AddressesOfKind("instance"))

\* C14 (as claimed): with no failure the Elastic IP category has one record
\* for every address listed, u unassociated and a associated with an
\* instance or a NAT gateway, and its cost is (2u + a) x 3.65.
C14_EveryAddressCounted ==
    (cat = "EIP" /\ TableBuilt /\ NoFailure) =>
        /\ Len(pmsg["EIP"].table.rows) = Unassociated + OnNATGateway + OnInstance
        /\ pmsg["EIP"].count = Unassociated + OnNATGateway + OnInstance
        /\ pmsg["EIP"].cost = (2 * Unassociated + OnNATGateway + OnInstance) * 365

\* C14 (amended): with no failure the Elastic IP category has one record
\* for every listed address that is not attached to an instance, u
\* unassociated and n on a NAT gateway, none for an address attached to an
\* instance, and its cost is (2u + n) x 3.65.
C14_AddressesOffInstancesCounted ==
    (cat = "EIP" /\ TableBuilt /\ NoFailure) =>
        /\ Len(pmsg["EIP"].table.rows) = Unassociated + OnNATGateway
        /\ pmsg["EIP"].count = Unassociated + OnNATGateway
        /\ pmsg["EIP"].cost = (2 * Unassociated + OnNATGateway) * 365
        /\ \A i \in 1..Len(pmsg["EIP"].table.rows) :
              pmsg["EIP"].table.rows[i].target # "Instance"

C14_Witness ==
    /\ cat = "EIP" /\ TableBuilt /\ NoFailure
    /\ Unassociated = 1 /\ OnNATGateway = 1 /\ OnInstance = 1
    /\ pmsg["EIP"].count = 2 /\ pmsg["EIP"].cost = 1095
\* the load balancer a record was built from
LBOf(rec) == world[rec.region][rec.id[1]].items[rec.id[2]]

LBRecords == EmittedRecords \cup Range(pmsg["LB"].table.rows)

\* C15 (as claimed): the IPCount and the cost of a load-balancer record are
\* those of the distinct addresses among the answers of the DNS lookup.
C15_DistinctAddressesCounted ==
    cat = "LB" =>
        \A rec \in LBRecords :
            /\ rec.ipCount = Cardinality(Range(LBOf(rec).dns))
            /\ rec.cost = 365 * Cardinality(Range(LBOf(rec).dns))

WithPublicIP(w, ip) == {j \in 1..Len(w.items) : w.items[j] = ip /\ ip # NoIP}

RecordsOf(recs, r, ip) == {j \in 1..Len(recs) : recs[j].region = r /\ recs[j].ip = ip}

KnownIPs == {NoIP, 1, 2}

\* C17: every Instances record has a non-empty public IP, comes from a
\* region whose listing succeeded and costs 3.65; the returned list holds,
\* for every region, one record per listed instance with a public IP and
\* none for the instances without one or for a region whose listing failed.
C17_InstanceRecordIffPublicIP ==
    cat = "EC2" =>
        /\ \A rec \in EmittedRecords \cup Range(pmsg["EC2"].table.rows) :
              rec.ip # NoIP /\ world[rec.region].ok /\ rec.cost = 365
        /\ Returned =>
              \A r \in regions : \A ip \in KnownIPs :
                  Cardinality(RecordsOf(ret.records, r, ip))
                      = Cardinality(WithPublicIP(world[r], ip))

C17_Witness ==
    /\ cat = "EC2" /\ Returned /\ regions = RegionIds
    /\ ~world[1].ok
    /\ NoIP \in Range(world[2].items)
    /\ Len(ret.records) = 1 /\ ret.records[1].region = 2 /\ ret.records[1].cost = 365

\* C18: every Network Interfaces record has a non-empty public IP, comes
\* from a region whose listing succeeded and costs 3.65; the returned list
\* holds, for every region, one record per listed interface with a public
\* IP and none for the others or for a region whose listing failed.
C18_ENIRecordIffPublicIP ==
    cat = "ENI" =>
        /\ \A rec \in EmittedRecords \cup Range(pmsg["ENI"].table.rows) :
              rec.ip # NoIP /\ world[rec.region].ok /\ rec.cost = 365
        /\ Returned =>
              \A r \in regions : \A ip \in KnownIPs :
                  Cardinality(RecordsOf(ret.records, r, ip))
                      = Cardinality(WithPublicIP(world[r], ip))

C18_Witness ==
    /\ cat = "ENI" /\ Returned /\ regions = RegionIds
    /\ ~world[1].ok /\ HasError(ret.err)
    /\ NoIP \in Range(world[2].items)
    /\ Len(ret.records) = 1 /\ ret.records[1].region = 2 /\ ret.records[1].cost = 365
\* the listed instances with a public IP, over all regions
PublicInstances ==
    UNION {{<<r, j>> : j \in {i \in 1..Len(world[r].items) : world[r].items[i] # NoIP}} :
              r \in regions}

\* C19: the Instances category reports as count the number of its records
\* and as cost 3.65 times that count, with no error; the records are those
\* of the listed instances with a public IP, so a region with none adds
\* nothing (2 regions holding 2 and 0 such instances: 2 records, 7.30).
C19_InstancesTotals ==
    (cat = "EC2" /\ TableBuilt) =>
        /\ ~HasError(pmsg["EC2"].err) /\ ~pmsg["EC2"].table.nil
        /\ Range(pmsg["EC2"].table.rows) = Range(ret.records)
        /\ Len(pmsg["EC2"].table.rows) = Cardinality(PublicInstances)
        /\ pmsg["EC2"].count = Len(pmsg["EC2"].table.rows)
        /\ pmsg["EC2"].cost = 365 * pmsg["EC2"].count
        /\ \A i \in 1..Len(pmsg["EC2"].table.rows) : pmsg["EC2"].table.rows[i].cost = 365

C19_Witness ==
    /\ cat = "EC2" /\ TableBuilt /\ regions = {1, 2}
    /\ \E r1, r2 \in regions :
          /\ world[r1] = Listing(<<2, NoIP, 1>>)
          /\ world[r2] = Listing(<<>>)
    /\ Len(pmsg["EC2"].table.rows) = 2
    /\ pmsg["EC2"].count = 2 /\ pmsg["EC2"].cost = 730 /\ ~HasError(pmsg["EC2"].err)

\* the addresses resolved for the load balancers of region r
ResolvedIn(r) ==
    SeqSum([i \in 1..Len(world[r].v2.items) |-> Len(world[r].v2.items[i].dns)])
    + SeqSum([i \in 1..Len(world[r].classic.items) |-> Len(world[r].classic.items[i].dns)])

\* C20: the Load Balancers category reports as count the sum of IPCount
\* over its records, the number of addresses resolved and not the number
\* of load balancers, and as cost 3.65 times that count (one application
\* load balancer with 3 addresses: count 3, cost 10.95).
C20_LBTotals ==
    (cat = "LB" /\ TableBuilt) =>
        LET rows == pmsg["LB"].table.rows
        IN /\ ~HasError(pmsg["LB"].err) /\ ~pmsg["LB"].table.nil
           /\ Range(rows) = Range(ret.records) /\ Len(rows) = Len(ret.records)
           /\ pmsg["LB"].count = SeqSum([i \in 1..Len(rows) |-> rows[i].ipCount])
           /\ pmsg["LB"].count = SeqSum([r \in 1..Cardinality(regions) |-> ResolvedIn(r)])
           /\ pmsg["LB"].cost = SeqSum([i \in 1..Len(rows) |-> rows[i].cost])
           /\ pmsg["LB"].cost = 365 * pmsg["LB"].count

C20_Witness ==
    /\ cat = "LB" /\ TableBuilt /\ regions = {1}
    /\ Len(pmsg["LB"].table.rows) = 1
    /\ pmsg["LB"].table.rows[1].type = "application"
    /\ pmsg["LB"].table.rows[1].ipCount = 3
    /\ pmsg["LB"].count = 3 /\ pmsg["LB"].cost = 1095
\* C21: a table built without error has one data row per collected record,
\* row i showing the i-th record of the sorted list, the sorted list being
\* a permutation of what the collector returned; the cost cells re-summed
\* give the stored cost, and the stored count is the number of rows, for
\* load balancers the IP-count cells re-summed.
C21_RowsRederiveTotals ==
    (TableBuilt /\ ~HasError(pmsg[cat].err)) =>
        LET t == pmsg[cat].table
        IN /\ ~t.nil
           /\ Len(t.cells) = Len(ret.records)
           /\ \A rec \in Range(ret.records) :
                 Cardinality({i \in 1..Len(t.rows) : t.rows[i] = rec}) = 1
           /\ \A i \in 1..Len(t.cells) :
                 /\ t.cells[i].region = t.rows[i].region
                 /\ ParseMoney(t.cells[i].cost) = t.rows[i].cost
           /\ SeqSum([i \in 1..Len(t.cells) |-> ParseMoney(t.cells[i].cost)]) = pmsg[cat].cost
           /\ IF cat = "LB"
              THEN SeqSum([i \in 1..Len(t.cells) |-> Atoi(t.cells[i].ipCount)]) = pmsg[cat].count
              ELSE Len(t.cells) = pmsg[cat].count

C21_Witness ==
    /\ TableBuilt /\ cat = "LB" /\ ~HasError(pmsg["LB"].err)
    /\ Len(pmsg["LB"].table.cells) = 2
    /\ pmsg["LB"].table.rows # ret.records
    /\ pmsg["LB"].count = 4 /\ pmsg["LB"].cost = 1460
\* a lookup made for a listed load balancer failed: the DNS resolution, or
\* the metrics query of a type that has one
RecordLookupFailed ==
    \E r \in regions : \E k \in LBKinds : \E i \in 1..Len(world[r][k].items) :
        LET lb == world[r][k].items[i]
        IN \/ lb.dnsErr
           \/ ~lb.metric.ok /\ (k = "classic" \/ lb.type \in {"application", "network"})

\* C22 (as claimed): when fetchAllLoadBalancers returns and a per-record
\* lookup failed, the combined error it returns is non-empty, and the other
\* load balancers listed still have their record.
C22_RecordFailureSurfaced ==
    (cat = "LB" /\ Returned /\ RecordLookupFailed) =>
        /\ HasError(ret.err)
        /\ Len(ret.records) >= 1
\* ------------------------------------------------- the start of ipCostsView
RegionsCall == <<"regions", 0, "", 0>>

StartupInit ==
    /\ CollectorIdle
    /\ ppc = [p \in Categories |-> "unlaunched"]
    /\ CoordinatorIdle
    /\ mpc = "config"
    /\ chans = {}
    /\ tags = <<>>
    /\ nameTag = ""
    /\ sn = <<>>
    /\ calls = <<>>

\* config.LoadDefaultConfig: on an error ipCostsView returns it
LoadConfig ==
    /\ mpc = "config"
    /\ \E ok \in BOOLEAN : mpc' = IF ok THEN "regions" ELSE "configFailed"
    /\ UNCHANGED <<cvars, svars, chans, tags, nameTag, sn, calls>>

\* (variant: a failed region listing is issued a second time)
FetchRegionsRetry ==
    /\ mpc = "regions"
    /\ calls' = Bump(calls, RegionsCall)
    /\ \E ok \in BOOLEAN :
          mpc' = IF ok THEN "channels"
                 ELSE IF Issued(RegionsCall) = 0 THEN "regions" ELSE "regionsFailed"
    /\ UNCHANGED <<cvars, svars, chans, tags, nameTag, sn>>

\* fetchRegions: one DescribeRegions call; on an error log.Fatalf ends the
\* process
FetchRegions ==
    /\ mpc = "regions"
    /\ calls' = Bump(calls, RegionsCall)
    /\ \E ok \in BOOLEAN : mpc' = IF ok THEN "channels" ELSE "regionsFailed"
    /\ UNCHANGED <<cvars, svars, chans, tags, nameTag, sn>>

\* ec2Ch, lbCh, eipCh, eniCh := make(chan ChannelData), ...
MakeChannels ==
    /\ mpc = "channels"
    /\ chans' = Categories
    /\ mpc' = "launch"
    /\ UNCHANGED <<cvars, svars, tags, nameTag, sn, calls>>

\* the four go statements, then runUI
LaunchCollectors ==
    /\ mpc = "launch"
    /\ ppc' = [p \in Categories |-> "fetching"]
    /\ mpc' = "running"
    /\ UNCHANGED <<cvars, pin, pmsg, chClosed, chanLog, widx, data, out, now, waitStart,
                   maxReady, doneAt, chans, tags, nameTag, sn, calls>>

StartupNext ==
    \/ LoadConfig
    \/ FetchRegions
    \/ MakeChannels
    \/ LaunchCollectors
    \/ mpc = "running" /\ \E p \in Categories : FetchDone(p, PlainInputs(p))
    \/ mpc = "running" /\ \E p \in Categories : ProducerPanic(p)
    \/ mpc = "running" /\ \E p \in Categories : CoordRecv(p)
    \/ mpc = "running" /\ CoordClosed
    \/ mpc = "running" /\ CoordTimeout

StartupSpec == StartupInit /\ [][StartupNext]_vars

StartupFailed == mpc \in {"configFailed", "regionsFailed"}

\* C23: once the configuration load or the region listing has failed no
\* collector is ever launched, no category channel exists or carries a
\* message, and the region listing was issued once if it is the step that
\* failed (not at all if the configuration load failed); in every state the
\* region listing has been issued at most once.
C23_StartupFailureStopsScan ==
    /\ Issued(RegionsCall) <= 1
    /\ StartupFailed =>
          /\ \A p \in Categories : ppc[p] = "unlaunched" /\ pmsg[p] = NoData
          /\ chans = {}
          /\ \A c \in Categories : chanLog[c] = <<>> /\ ~chClosed[c]
          /\ ~out.done
          /\ Issued(RegionsCall) = (IF mpc = "regionsFailed" THEN 1 ELSE 0)
          /\ ~ENABLED StartupNext
    /\ (\E p \in Categories : ppc[p] # "unlaunched") =>
          mpc = "running" /\ chans = Categories /\ Issued(RegionsCall) = 1

C23_Witness == mpc = "regionsFailed" /\ Issued(RegionsCall) = 1
\* the calls a collector can issue
ListingKinds == IF cat = "LB" THEN LBKinds ELSE {""}

\* C24: no call is issued twice: every listing, address lookup, DNS lookup
\* and metrics query has been issued at most once for its region or record,
\* a region whose listing failed has issued it exactly once and nothing
\* after it, and the classic listing is issued only after the v2 listing of
\* the region succeeded.
C24_NoCallRepeated ==
    /\ \A u \in DOMAIN calls : calls[u] <= 1
    /\ \A r \in regions :
          /\ rpc[r] # "list" => \E k \in ListingKinds : Issued(ListingCall(r, k)) = 1
          /\ rpc[r] = "list" => \A u \in DOMAIN calls : u[2] # r
          /\ cat = "LB" /\ Issued(ListingCall(r, "classic")) = 1 =>
                Issued(ListingCall(r, "v2")) = 1 /\ world[r].v2.ok
          /\ cat = "LB" /\ rpc[r] # "list" /\ (~world[r].v2.ok \/ ~world[r].classic.ok) =>
                \A t \in LBTasks : t[1] = r =>
                    Issued(DNSCall(t)) = 0 /\ Issued(MetricCall(t)) = 0
          /\ cat # "LB" /\ rpc[r] # "list" /\ ~world[r].ok =>
                \A u \in DOMAIN calls : u[2] = r => u = ListingCall(r, "")
    /\ cat = "LB" =>
          \A t \in LBTasks :
              /\ Issued(DNSCall(t)) = (IF tpc[t] = "done" THEN 1 ELSE 0)
              /\ Issued(MetricCall(t)) <= Issued(DNSCall(t))

C24_Witness ==
    /\ cat = "LB"
    /\ \E r \in regions :
          ~world[r].v2.ok /\ Issued(ListingCall(r, "v2")) = 1
                         /\ Issued(ListingCall(r, "classic")) = 0
    /\ \E t \in LBTasks : Issued(DNSCall(t)) = 1 /\ Issued(MetricCall(t)) = 1
\* ------------------------------------------------------------ the name tag
MaxTags == 3

TagKeys == {"Name", "aws:cloudformation:stack-name", "aws:autoscaling:groupName", "Owner"}

TagValues == {"", "a", "b"}

\* the tag lists of a resource: key and value present on every tag
TagLists == SeqsUpTo([key : TagKeys, value : TagValues], MaxTags)

RECURSIVE getTagValue(_, _)

\* (variant: the last tag carrying the key decides)
getTagValueLast(ts, key) ==
    LET I == {i \in 1..Len(ts) : ts[i].key = key}
    IN IF I = {} THEN "" ELSE ts[CHOOSE i \in I : \A j \in I : j <= i].value

\* for _, tag := range tags { if *tag.Key == key { return *tag.Value } }
getTagValue(ts, key) ==
    IF ts = <<>> THEN ""
    ELSE IF Head(ts).key = key THEN Head(ts).value
    ELSE getTagValue(Tail(ts), key)

getNameTagValue(ts) ==
    LET name == getTagValue(ts, "Name")
        stack == IF name = "" THEN getTagValue(ts, "aws:cloudformation:stack-name") ELSE name
    IN IF stack = "" THEN getTagValue(ts, "aws:autoscaling:groupName") ELSE stack

TagInit ==
    /\ CollectorIdle
    /\ ppc = [p \in Categories |-> "unlaunched"]
    /\ CoordinatorIdle
    /\ mpc = "tags"
    /\ chans = {}
    /\ tags \in TagLists
    /\ nameTag = ""
    /\ sn = <<>>
    /\ calls = <<>>

\* nameTag := getNameTagValue(eip.Tags)
NameResource ==
    /\ mpc = "tags"
    /\ nameTag' = getNameTagValue(tags)
    /\ mpc' = "named"
    /\ UNCHANGED <<cvars, svars, chans, tags, sn, calls>>

TagNext == NameResource

TagSpec == TagInit /\ [][TagNext]_vars

\* the value of the first tag of the list whose key is k, "" when there is none
FirstValue(k) ==
    LET I == {i \in 1..Len(tags) : tags[i].key = k}
    IN IF I = {} THEN "" ELSE tags[CHOOSE i \in I : \A j \in I : i <= j].value

\* C25: the name computed for a tag list is the value of its first Name tag
\* when that is non-empty, otherwise the value of its first
\* aws:cloudformation:stack-name tag when that is non-empty, otherwise the
\* value of its first aws:autoscaling:groupName tag, otherwise "".
C25_NameTagFallbacks ==
    mpc = "named" =>
        nameTag = (IF FirstValue("Name") # "" THEN FirstValue("Name")
                   ELSE IF FirstValue("aws:cloudformation:stack-name") # ""
                   THEN FirstValue("aws:cloudformation:stack-name")
                   ELSE FirstValue("aws:autoscaling:groupName"))

C25_Witness ==
    /\ mpc = "named"
    /\ tags = <<[key |-> "Name", value |-> ""], [key |-> "Name", value |-> "a"],
                [key |-> "aws:cloudformation:stack-name", value |-> "b"]>>
    /\ nameTag = "b"
\* the producers that have not finished: region goroutines and the
\* per-load-balancer goroutines started and not yet done
LiveRegions == {r \in regions : rpc[r] # "done"}

LiveTasks == {t \in LBTasks : tpc[t] = "run"}

\* C26: in the channel-based collectors each channel is closed at most once
\* and only by the finalizer, after every region goroutine and every
\* per-load-balancer goroutine has finished; the counter equals the number
\* of unfinished producers, so it is not zero while one is still to run;
\* no producer is left to send once a channel is closed; and when the
\* collector has returned each channel has been closed exactly once.
C26_ClosedOnceAfterProducers ==
    cat \in ChannelCategories =>
        /\ Issued(CloseCall("results")) = (IF resClosed THEN 1 ELSE 0)
        /\ Issued(CloseCall("errors")) = (IF errClosed THEN 1 ELSE 0)
        /\ resClosed <=> fpc \in {"closeErr", "done"}
        /\ errClosed <=> fpc = "done"
        /\ wg = Cardinality(LiveRegions) + Cardinality(LiveTasks)
        /\ (resClosed \/ errClosed) => wg = 0 /\ LiveRegions = {} /\ LiveTasks = {}
        /\ \A t \in LBTasks : tpc[t] # "none" => rpc[t[1]] \in {"spawned", "done"}
        /\ Returned => resClosed /\ errClosed

C26_Witness ==
    /\ cat = "LB" /\ Returned
    /\ Cardinality({t \in LBTasks : tpc[t] = "done"}) = 2
    /\ Issued(CloseCall("results")) = 1 /\ Issued(CloseCall("errors")) = 1
ExpectedOrder == <<"ENI", "EC2", "LB", "EIP">>

Received(c) == chanLog[c] # <<>>

\* C27: the coordinator receives in the order Network Interfaces, Instances,
\* Load Balancers, Elastic IPs: the channel it waits on is the next of that
\* order, everything before it has delivered a result without error and
\* nothing after it has been received; a wait lasts at most the 20 units of
\* its channel counted from the start of that wait, and a timeout ends the
\* scan exactly 20 units after the start of the wait that timed out,
\* whatever the earlier waits took.
C27_OrderedIndependentWaits ==
    /\ Waiting.ch = ExpectedOrder[widx]
    /\ Waiting.timeout = 20
    /\ \A i \in 1..Len(ExpectedOrder) :
          /\ i < widx => Received(ExpectedOrder[i]) /\ ~HasError(data[ExpectedOrder[i]].err)
          /\ i > widx => ~Received(ExpectedOrder[i])
    /\ Received(Waiting.ch) => out.done
    /\ ~out.done => now - waitStart <= Waiting.timeout
    /\ out.done => doneAt - waitStart <= Waiting.timeout
    /\ (out.done /\ out.err.kind = "timeout") => doneAt = waitStart + Waiting.timeout

C27_Witness ==
    /\ out.done /\ out.err.kind = "timeout"
    /\ widx = 3 /\ waitStart = 2
    /\ doneAt = 22
Appending == {r \in regions : rpc[r] = "append"}

\* the instances of region r that fetchAllInstances is to return
PublicInstancesOf(r) == IF world[r].ok THEN fetchInstancesInRegion(world[r]) ELSE <<>>

\* C28: in fetchAllInstances a region goroutine is at its append only while
\* it holds the mutex, so at most one is; the list changes only in such a
\* step; the list is read for the return only when the counter is 0 and
\* every region goroutine has finished; and the returned list holds each
\* instance with a public IP of each region listed exactly once and nothing
\* else.
C28_NoInstanceLost ==
    /\ [](cat = "EC2" =>
            /\ \A r \in regions : rpc[r] = "append" <=> mu = r
            /\ Cardinality(Appending) <= 1
            /\ Appending = {} => mu = 0
            /\ Returned =>
                  /\ wg = 0 /\ \A r \in regions : rpc[r] = "done"
                  /\ ret.records = all
                  /\ Len(ret.records) = SeqSum([r \in 1..Cardinality(regions) |->
                                                  Len(PublicInstancesOf(r))])
                  /\ \A r \in regions : \A i \in 1..Len(PublicInstancesOf(r)) :
                        CountIn(ret.records, EC2InstanceInfo(r, i, PublicInstancesOf(r)[i])) = 1)
    /\ [][cat = "EC2" =>
            /\ all' # all => \E r \in regions : mu = r /\ rpc[r] = "append" /\ mu' = 0
            /\ ret' # ret => wg = 0 /\ \A r \in regions : rpc[r] = "done"]_vars

C28_Witness ==
    /\ cat = "EC2" /\ Returned
    /\ Len(ret.records) = 3
    /\ ret.records[1].region = 2 /\ ret.records[2].region = 1 /\ ret.records[3].region = 2
\* the load balancers the listings of region r returned
Discovered(r) == {t \in LBTasks : t[1] = r /\ t[3] <= Len(world[r][t[2]].items)}

BothListed(r) == rpc[r] \in {"spawned", "done"} /\ world[r].v2.ok /\ world[r].classic.ok

RecordOfTask(t) == LoadBalancerInfo(t[1], t[2], t[3], world[t[1]][t[2]].items[t[3]])

\* how many times the record of task t has been emitted
EmittedBy(t) == CountIn(resCh, RecordOfTask(t)) + CountIn(all, RecordOfTask(t))

\* C29: once both listings of a region have succeeded there is exactly one
\* per-load-balancer goroutine for each load balancer listed (v2 and classic)
\* and none otherwise; a goroutine that has finished has emitted exactly one
\* record and one that has not has emitted none; and when the collector
\* returns with no region failed, the result is exactly one record per load
\* balancer listed in all regions.
C29_OneTaskOneRecordPerLB ==
    cat = "LB" =>
        /\ \A r \in regions :
              {t \in LBTasks : t[1] = r /\ tpc[t] # "none"}
                  = (IF BothListed(r) THEN Discovered(r) ELSE {})
        /\ \A r \in regions : \A t \in Discovered(r) :
              EmittedBy(t) = (IF tpc[t] = "done" THEN 1 ELSE 0)
        /\ Len(resCh) + Len(all) = Cardinality({t \in LBTasks : tpc[t] = "done"})
        /\ (Returned /\ NoFailure) =>
              /\ Len(ret.records) = Cardinality(UNION {Discovered(r) : r \in regions})
              /\ \A r \in regions : \A t \in Discovered(r) :
                    CountIn(ret.records, RecordOfTask(t)) = 1

C29_Witness ==
    /\ cat = "LB" /\ Returned /\ NoFailure
    /\ Len(ret.records) = 3
    /\ \E i, j \in 1..3 : ret.records[i].type = "classic" /\ ret.records[j].type = "application"
    /\ ret.records[1].region = 2
\* unpackChannelData returned an error: the goroutine of runUI calls
\* log.Fatalf, which ends the process and every goroutine with it (the
\* guard ~out.done of the producers' steps)
Aborted == out.done /\ out.err.kind # "none"

Completed(p) == ppc[p] \in {"closed", "panicked"}

\* C30 (as claimed): after a timeout or an abort of the coordinator the
\* producers not yet received keep running to completion: a producer that
\* has not completed still has a step to take, so the scan comes to rest
\* only with every producer completed; and no channel receives a message
\* after the abort.
C30_WorkersRunToCompletion ==
    Aborted =>
        /\ \A p \in Categories :
              ~Completed(p) => ENABLED (FetchDone(p, ScanInputs(p)) \/ CoordRecv(p))
        /\ ~ENABLED ScanNext => \A p \in Categories : Completed(p)
\* the error messages of region r sent or collected so far
ErrorsOf(r) == SelectSeq(errCh \o errors, LAMBDA e : e.region = r)

\* C31: a region of the Load Balancers collector one of whose listings
\* failed has no per-load-balancer goroutine and no record emitted, also for
\* the load balancers its v2 listing returned before the classic listing
\* failed; it goes on to send one error and nothing else: no error is out
\* while it is at the send, exactly one once it has sent, and a region whose
\* listings both succeeded sends none.
C31_LBRegionAllOrNothing ==
    cat = "LB" =>
        \A r \in regions :
            /\ RegionFailed(r) =>
                  /\ rpc[r] \in {"senderr", "done"}
                  /\ \A t \in LBTasks : t[1] = r => tpc[t] = "none"
                  /\ \A rec \in EmittedRecords : rec.region # r
                  /\ Len(ErrorsOf(r)) = (IF rpc[r] = "done" THEN 1 ELSE 0)
            /\ ~RegionFailed(r) => ErrorsOf(r) = <<>>

C31_Witness ==
    /\ cat = "LB"
    /\ world[1].v2.ok /\ Len(world[1].v2.items) = 2 /\ ~world[1].classic.ok
    /\ rpc[1] = "senderr"
    /\ rpc[2] = "done" /\ \E rec \in Range(all) : rec.region = 2
\* ------------------------------------------- a scan against a long clock
\* the clock runs past the sum of the four timeouts
LongClockCap == TimeoutForENI + TimeoutForEC2 + TimeoutForLB + TimeoutForEIP + 2

\* (variant: time goes on although the timer of the wait has expired)
TickWithinPastDeadline(cap) ==
    /\ ~out.done /\ now < cap
    /\ ~chClosed[Waiting.ch]
    /\ \A p \in Categories : ~(ppc[p] = "sending" /\ ChannelOf(p) = Waiting.ch)
    /\ now' = now + 1
    /\ UNCHANGED <<mvars, cvars, ppc, pin, pmsg, chClosed, chanLog, widx, data, out,
                   waitStart, maxReady, doneAt>>

\* time passes while the select of the coordinator has no case ready
TickWithin(cap) ==
    /\ ~out.done /\ now < cap
    /\ ~Expired
    /\ ~chClosed[Waiting.ch]
    /\ \A p \in Categories : ~(ppc[p] = "sending" /\ ChannelOf(p) = Waiting.ch)
    /\ now' = now + 1
    /\ UNCHANGED <<mvars, cvars, ppc, pin, pmsg, chClosed, chanLog, widx, data, out,
                   waitStart, maxReady, doneAt>>

LongNext ==
    \/ \E p \in Categories : FetchDone(p, PlainInputs(p)) \/ ProducerPanic(p) \/ CoordRecv(p)
    \/ CoordClosed
    \/ CoordTimeoutAt
    \/ TickWithin(LongClockCap)

\* time does not stop and an expired timer fires
LongScanSpec == ScanStart /\ [][LongNext]_vars /\ WF_vars(LongNext)

SumOfTimeouts == SeqSum([i \in 1..Len(channels) |-> channels[i].timeout])

\* C32: unpackChannelData returns, with the tables or with an error, and
\* does so no later than the sum of the four timeouts (80) after it started
\* waiting, whatever the producers do: while it has not returned the clock
\* is within the timeouts of the channels waited on so far.
C32_OutcomeWithinSumOfTimeouts ==
    /\ <>out.done
    /\ [](/\ SumOfTimeouts = 80
          /\ ~out.done => now <= SeqSum([i \in 1..widx |-> channels[i].timeout])
          /\ now <= SumOfTimeouts
          /\ out.done => doneAt <= SumOfTimeouts)

C32_Witness ==
    /\ out.done /\ out.err.kind = "timeout"
    /\ widx = 4 /\ doneAt = 80
    /\ \A p \in Categories : ppc[p] = "fetching" <=> p = "EIP"
\* C33: the timer of a channel starts when the coordinator moves on to it,
\* not at the start of the scan: on moving on, the start of the wait is set
\* to the present time; the wait on the k-th channel starts no later than
\* (k - 1) * 20 and is still open until 20 units after its own start, so a
\* scan succeeds with results delivered after 20 units from the start of
\* the scan.
C33_TimersStartWithTheirWait ==
    /\ [](/\ waitStart <= (widx - 1) * 20
          /\ ~out.done => now - waitStart <= Waiting.timeout
          /\ (~out.done /\ now - waitStart < Waiting.timeout) => ~ENABLED CoordTimeoutAt
          /\ (out.done /\ out.err.kind = "none") => doneAt - waitStart <= Waiting.timeout)
    /\ [][widx' # widx => widx' = widx + 1 /\ waitStart' = now /\ now' = now]_vars

C33_Witness ==
    /\ out.done /\ out.err.kind = "none"
    /\ waitStart = 57 /\ doneAt = 76
    /\ Len(out.tables) = 4
\* C34: the error of a failed scan is the outcome of the channel the
\* coordinator was waiting on, the first in the order Network Interfaces,
\* Instances, Load Balancers, Elastic IPs that did not deliver a result
\* without error: every channel before it delivered one, none after it was
\* received, and the error is the one its producer sent, its timeout, or
\* its close. Until then no error is reported, whatever the producers of
\* later channels already hold.
C34_FirstFailureInWaitOrder ==
    /\ Waiting.ch = ExpectedOrder[widx]
    /\ \A i \in 1..Len(ExpectedOrder) :
          /\ i < widx => Received(ExpectedOrder[i]) /\ ~HasError(data[ExpectedOrder[i]].err)
          /\ i > widx => ~Received(ExpectedOrder[i])
    /\ ~out.done => out.err = NoError
    /\ out.done =>
          CASE out.err.kind = "fetch" ->
                   /\ chanLog[Waiting.ch] = <<[from |-> Waiting.ch, data |-> pmsg[Waiting.ch]]>>
                   /\ HasError(pmsg[Waiting.ch].err)
                   /\ out.err.text = pmsg[Waiting.ch].err
            [] out.err.kind = "timeout" ->
                   ~Received(Waiting.ch) /\ out.err = TimeoutError(Waiting.ch)
            [] out.err.kind = "closed" ->
                   ~Received(Waiting.ch) /\ chClosed[Waiting.ch] /\ out.err = ClosedError
            [] OTHER ->
                   /\ widx = Len(ExpectedOrder)
                   /\ Received(Waiting.ch) /\ ~HasError(data[Waiting.ch].err)

C34_Witness ==
    /\ out.done /\ out.err.kind = "fetch" /\ widx = 2 + 2
    /\ ppc = [p \in Categories |-> "closed"]
    /\ out.err.text = pmsg["EIP"].err

C34_WitnessEarlierFails ==
    /\ out.done /\ out.err.kind = "timeout" /\ widx = 1
    /\ ppc["EIP"] = "sending" /\ HasError(pmsg["EIP"].err)
\* the answers the regions of this invocation gave
Responses == [r \in regions |-> world[r]]

\* C35: what a collector returns is decided by the answers of the provider
\* up to order: whatever the interleaving, the returned list holds exactly
\* once each record the answers determine and nothing else, and the
\* combined error holds exactly once each message they determine and
\* nothing else.
C35_ResultDeterminedUpToOrder ==
    Returned =>
        /\ \A rec \in Range(ret.records) \cup CollectorRecords(cat, Responses) :
              CountIn(ret.records, rec) = 1 /\ rec \in CollectorRecords(cat, Responses)
        /\ \A e \in Range(ret.err) \cup CollectorErrors(cat, Responses) :
              CountIn(ret.err, e) = 1 /\ e \in CollectorErrors(cat, Responses)

C35_Witness ==
    /\ cat = "EIP" /\ Returned
    /\ Len(ret.records) = 1 /\ ret.records[1].region = 1
    /\ Len(ret.err) = 2 /\ ret.err[1].region = 2 /\ ret.err[2].region = 1
NoPanic == \A p \in Categories : ppc[p] # "panicked"

\* C36: while no producer has panicked, a channel is closed only after its
\* one message has been received, no channel carries more than one message,
\* the closed channel is never the one the coordinator waits on, and the
\* scan does not end with the closed-channel error.
C36_NoCloseBeforeMessage ==
    NoPanic =>
        /\ \A c \in Categories :
              /\ Len(chanLog[c]) <= 1
              /\ chClosed[c] <=> Len(chanLog[c]) = 1
              /\ chClosed[c] <=> ppc[c] = "closed"
        /\ ~out.done => ~chClosed[Waiting.ch]
        /\ ~ENABLED CoordClosed
        /\ out.err.kind # "closed"

C36_Witness ==
    /\ NoPanic /\ ~out.done /\ widx = 3
    /\ chClosed = [c \in Categories |-> c \in {"ENI", "EC2"}]
    /\ ppc["LB"] = "sending" /\ ppc["EIP"] = "sending"
\* ------------------------------------------------------- the --subnets mode
MaxSubnets == 2

MaxRuns == 2

SubnetRegions == 1..2

\* MapPublicIpOnLaunch of the subnets of each region
SubnetClouds == [SubnetRegions -> SeqsUpTo(BOOLEAN, MaxSubnets)]

\* fmt.Sprintf("%v", b)
FormatBool(b) == IF b THEN "true" ELSE "false"

SubnetsRun(cloud, orig, run, allOk) ==
    [cloud |-> cloud, orig |-> orig, atStart |-> cloud, run |-> run, pc |-> "start",
     region |-> 1, idx |-> 1, listing |-> <<>>,
     listed |-> [r \in SubnetRegions |-> "no"],
     table |-> <<>>, reqs |-> <<>>, allOk |-> allOk]

SubnetInit ==
    /\ CollectorIdle
    /\ ppc = [p \in Categories |-> "unlaunched"]
    /\ CoordinatorIdle
    /\ mpc = "subnets"
    /\ chans = {}
    /\ tags = <<>>
    /\ nameTag = ""
    /\ calls = <<>>
    /\ \E c \in SubnetClouds : sn = SubnetsRun(c, c, 1, TRUE)

\* LoadDefaultConfig and DescribeRegions: log.Fatalf when either fails
SubnetsStart ==
    /\ mpc = "subnets" /\ sn.pc = "start"
    /\ \E outcome \in {"ok", "configFailed", "regionsFailed"} :
          sn' = [sn EXCEPT !.pc = IF outcome = "ok" THEN "list" ELSE "fatal"]
    /\ UNCHANGED <<cvars, svars, mpc, chans, tags, nameTag, calls>>

\* the loop over the regions moves on; after the last region app.Run()
NextRegion(r) ==
    IF r + 1 \in SubnetRegions
    THEN [sn EXCEPT !.region = r + 1, !.pc = "list", !.idx = 1, !.listing = <<>>]
    ELSE [sn EXCEPT !.pc = "shown", !.idx = 1, !.listing = <<>>]

\* DescribeSubnets of the region: on an error, log and continue
SubnetsList ==
    /\ mpc = "subnets" /\ sn.pc = "list"
    /\ LET r == sn.region
       IN \E ok \in BOOLEAN :
             IF ~ok
             THEN sn' = [NextRegion(r) EXCEPT !.listed[r] = "failed", !.allOk = FALSE]
             ELSE IF sn.cloud[r] = <<>>
             THEN sn' = [NextRegion(r) EXCEPT !.listed[r] = "ok"]
             ELSE sn' = [sn EXCEPT !.listed[r] = "ok", !.listing = sn.cloud[r],
                                   !.pc = "row", !.idx = 1]
    /\ UNCHANGED <<cvars, svars, mpc, chans, tags, nameTag, calls>>

\* row++ and the next subnet, or the next region after the last subnet
SubnetsAfter(r, i, stop) ==
    IF i = Len(sn.listing) \/ stop THEN NextRegion(r) ELSE [sn EXCEPT !.idx = i + 1]

\* (variant: a failed modify request ends the loop over the region's subnets)
SubnetToggleStopOnError ==
    /\ sn.pc = "row"
    /\ LET r == sn.region
           i == sn.idx
           v == sn.listing[i]
           newValue == ~v
       IN \E ok \in BOOLEAN :
             sn' = [SubnetsAfter(r, i, ~ok) EXCEPT
                       !.table = Append(@, [region |-> r, subnet |-> i, shown |-> FormatBool(v)]),
                       !.reqs = Append(@, [region |-> r, subnet |-> i, value |-> newValue,
                                           ok |-> ok]),
                       !.cloud[r][i] = IF ok THEN newValue ELSE @,
                       !.allOk = @ /\ ok]
    /\ UNCHANGED <<cvars, svars, mpc, chans, tags, nameTag, calls>>

\* one subnet: its row with the listed value, then ModifySubnetAttribute with
\* the negated value; an error of the request is logged and the loop goes on
SubnetToggle ==
    /\ sn.pc = "row"
    /\ LET r == sn.region
           i == sn.idx
           v == sn.listing[i]
           newValue == ~v
       IN \E ok \in BOOLEAN :
             sn' = [SubnetsAfter(r, i, FALSE) EXCEPT
                       !.table = Append(@, [region |-> r, subnet |-> i, shown |-> FormatBool(v)]),
                       !.reqs = Append(@, [region |-> r, subnet |-> i, value |-> newValue,
                                           ok |-> ok]),
                       !.cloud[r][i] = IF ok THEN newValue ELSE @,
                       !.allOk = @ /\ ok]
    /\ UNCHANGED <<cvars, svars, mpc, chans, tags, nameTag, calls>>

\* the mode is invoked once more
SubnetsAgain ==
    /\ mpc = "subnets" /\ sn.pc = "shown" /\ sn.run < MaxRuns
    /\ sn' = SubnetsRun(sn.cloud, sn.orig, sn.run + 1, sn.allOk)
    /\ UNCHANGED <<cvars, svars, mpc, chans, tags, nameTag, calls>>

SubnetNext == SubnetsStart \/ SubnetsList \/ SubnetToggle \/ SubnetsAgain

SubnetSpec == SubnetInit /\ [][SubnetNext]_vars

\* the regions whose loop iteration of the present run is over
Processed(r) == sn.pc = "shown" \/ (sn.pc \in {"list", "row"} /\ r < sn.region)

Negated(c) == [r \in SubnetRegions |-> [i \in 1..Len(c[r]) |-> ~c[r][i]]]

\* C37: in a run of the --subnets mode every subnet of every region whose
\* listing succeeded gets exactly one modify request, for the negation of
\* the value it had when listed, and exactly one row, which shows the value
\* from before the change; a region whose listing failed gets neither; a
\* failed listing or request does not keep the later regions and subnets
\* from being processed; a subnet holds the negated value exactly when its
\* request succeeded; and when no call has failed the subnets hold the
\* negation of their original values after an odd number of runs and their
\* original values after an even number.
C37_SubnetsToggled ==
    sn.pc \in {"list", "row", "shown"} =>
        /\ Len(sn.table) = Len(sn.reqs)
        /\ \A r \in SubnetRegions :
              LET rows == SelectSeq(sn.table, LAMBDA x : x.region = r)
                  reqs == SelectSeq(sn.reqs, LAMBDA x : x.region = r)
                  n == Len(sn.atStart[r])
              IN /\ Processed(r) => sn.listed[r] \in {"ok", "failed"}
                 /\ sn.listed[r] # "ok" => rows = <<>> /\ reqs = <<>>
                 /\ (Processed(r) /\ sn.listed[r] = "ok") => Len(rows) = n /\ Len(reqs) = n
                 /\ \A k \in 1..Len(reqs) :
                       /\ reqs[k].subnet = k /\ rows[k].subnet = k
                       /\ reqs[k].value = ~sn.atStart[r][k]
                       /\ rows[k].shown = FormatBool(sn.atStart[r][k])
                       /\ sn.cloud[r][k] = (IF reqs[k].ok THEN ~sn.atStart[r][k]
                                            ELSE sn.atStart[r][k])
                 /\ \A i \in (Len(reqs) + 1)..n : sn.cloud[r][i] = sn.atStart[r][i]
        /\ (sn.pc = "shown" /\ sn.allOk) =>
              sn.cloud = (IF sn.run % 2 = 0 THEN sn.orig ELSE Negated(sn.orig))

C37_Witness ==
    /\ sn # <<>> /\ sn.pc = "shown" /\ sn.run = 2 /\ sn.allOk
    /\ sn.orig = [r \in SubnetRegions |-> IF r = 1 THEN <<TRUE, FALSE>> ELSE <<FALSE>>]
    /\ sn.cloud = sn.orig
    /\ Len(sn.table) = 3 /\ sn.table[1].shown = "false" /\ sn.reqs[1].value = TRUE
\* ------------------------------------------------------------ what is shown
pageOrder == <<"Elastic Network Interfaces (also include EC2, LBs amd EIPs)",
               "EC2 Instances (includes attached EIPs)",
               "Load Balancers",
               "EIPs not attached to instances">>

\* tabs.AddPage(pageOrder[i], table, true, false) for i, table := range tables
createTabs(tables) == [i \in 1..Len(tables) |-> [page |-> pageOrder[i], table |-> tables[i]]]

\* the four lines of costSummaries that carry numbers: counts[i] and costs[i]
\* next to the words of the line
createMainLayout(counts, costs) ==
    <<[words |-> "Public IPs attached to Elastic Network Intefaces",
       count |-> Itoa(counts[1]), cost |-> FormatMoney(costs[1])],
      [words |-> "EC2 instances",
       count |-> Itoa(counts[2]), cost |-> FormatMoney(costs[2])],
      [words |-> "Load balancers load balancer IPs",
       count |-> Itoa(counts[3]), cost |-> FormatMoney(costs[3])],
      [words |-> "Elastic IPs",
       count |-> Itoa(counts[4]), cost |-> FormatMoney(costs[4])]>>

\* the category a page title or a summary line speaks of
LabelCategory(label) ==
    CASE label \in {"Elastic Network Interfaces (also include EC2, LBs amd EIPs)",
                    "Public IPs attached to Elastic Network Intefaces"} -> "ENI"
      [] label \in {"EC2 Instances (includes attached EIPs)", "EC2 instances"} -> "EC2"
      [] label \in {"Load Balancers", "Load balancers load balancer IPs"} -> "LB"
      [] label \in {"EIPs not attached to instances", "Elastic IPs"} -> "EIP"

\* C38: when unpackChannelData returns without error, position i of its
\* tables, counts and costs holds what the producer of the i-th category of
\* Network Interfaces, Instances, Load Balancers, Elastic IPs built, so the
\* page with a category's title shows the table that category's producer
\* sent and the summary line of a category shows that producer's count and
\* cost.
C38_PositionsMatchLabels ==
    (out.done /\ out.err.kind = "none") =>
        /\ \A i \in 1..Len(ExpectedOrder) :
              /\ out.tables[i] = pmsg[ExpectedOrder[i]].table
              /\ out.counts[i] = pmsg[ExpectedOrder[i]].count
              /\ out.costs[i] = pmsg[ExpectedOrder[i]].cost
        /\ Len(createTabs(out.tables)) = 4
        /\ \A i \in 1..Len(createTabs(out.tables)) :
              LET tab == createTabs(out.tables)[i]
              IN tab.table = pmsg[LabelCategory(tab.page)].table
        /\ \A i \in 1..4 :
              LET line == createMainLayout(out.counts, out.costs)[i]
              IN /\ Atoi(line.count) = pmsg[LabelCategory(line.words)].count
                 /\ ParseMoney(line.cost) = pmsg[LabelCategory(line.words)].cost

C38_Witness ==
    /\ out.done /\ out.err.kind = "none"
    /\ out.counts = <<0, 2, 4, 2>>
    /\ out.costs = <<0, 730, 1460, 1460>>
    /\ Len(out.tables[4].rows) = 2 /\ Len(out.tables[3].rows) = 4
====
